---- MODULE Spec2Model ----
(***************************************************************************)
(* Symbol layout of one tile bucket (performSymbolLayout, addFeature,      *)
(* addSymbol, addTextVertices, anchorIsTooClose).  The bucket's arrays are *)
(* the state; a layout pass takes the bucket's features one after the      *)
(* other and, for every feature, visits the candidate anchors of its       *)
(* geometry in order.  A feature is drawn when the feature loop reaches    *)
(* it.  Array indices are 0-based as in the source; -1 stands for "none".  *)
(***************************************************************************)
EXTENDS Integers, Sequences, FiniteSets, TLC

(* ------------------------------------------------------------------ *)
(* Program constants                                                  *)
(* ------------------------------------------------------------------ *)

\* the tile's coordinate range, imported from data/extent
EXTENT == 8192

\* tileSize = 512 * bucket.overscaling
TileSizeBase == 512

\* one em in glyph units, imported from ./one_em
ONE_EM == 24

\* the factor of a packed size, imported from ./symbol_size
SIZE_PACK_FACTOR == 128

\* the largest packed size, imported from ./symbol_size
MAX_PACKED_SIZE == 65535

\* SymbolBucket.MAX_GLYPHS, of the imported SymbolBucket
MAX_GLYPHS == 65535

\* the second component handed to evaluateVariableOffset with a radial
\* offset, imported from ../style/style_layer/variable_text_anchor; it is no
\* offset a style can give
INVALID_TEXT_OFFSET == 1000000

(* ------------------------------------------------------------------ *)
(* Bounds of the model                                                *)
(* ------------------------------------------------------------------ *)

\* features in the bucket
MaxFeatures == 2

\* points in the geometry of all features of the bucket together
MaxPoints == 2

\* layout passes run on the same bucket
MaxRuns == 2

\* symbols added while the capacity guards are watched
MaxSymbols == 2

\* config.MAX_PARALLEL_IMAGE_REQUESTS as configured
MAX_PARALLEL_IMAGE_REQUESTS == 2

\* getImage calls
MaxRequests == 6

\* throttle control callbacks installed
MaxCallbacks == 2

\* tasks added to a TaskQueue
MaxTasks == 3

\* run() calls on a TaskQueue
MaxTaskRuns == 2

\* requests made with makeFetchRequest
MaxFetches == 3

\* sprites of a style
MaxSprites == 3

\* clock ticks in globeConstants.globeTransitionTimeSeconds
TransitionTicks == 2

\* clock ticks a GlobeTransform is followed for
MaxTime == 6

\* loadData requests sent to a GeoJSONWorkerSource
MaxLoads == 5

\* anchors in a text-variable-anchor list
MaxVariableAnchors == 2

(* ------------------------------------------------------------------ *)
(* Inputs                                                             *)
(* ------------------------------------------------------------------ *)

\* tile-local points: inside the tile, on its last row/column, and just
\* outside it (vector tiles carry a buffer around the tile)
TilePoints ==
    { <<0, 0>>, <<0, 8>>, <<EXTENT - 1, 0>>, <<EXTENT, 0>>, <<0, EXTENT>>, <<-1, 0>> }

\* images present in args.imageMap
ImageMap == {"marker"}

\* the values of text-anchor
TextAnchors ==
    {"center", "left", "right", "top", "bottom",
     "top-left", "top-right", "bottom-left", "bottom-right"}

\* the value of a shaping that was never produced (undefined / null / false)
NoShaping == [text |-> "", lines |-> 0, justify |-> "none", writingMode |-> "none"]

Truthy(shaping) == shaping.lines > 0

VARIABLES
    layout,          \* bucket.layers[0].layout and the bucket's own settings
    bucket,          \* the arrays and maps the layout pass writes
    pc,              \* where performSymbolLayout stands
    feature,         \* the feature the loop of performSymbolLayout took last
    shaped,          \* its shapedTextOrientations, shapedIcon, verticallyShapedIcon
    anchors,         \* the anchors of that feature not yet visited
    nFeatures,       \* features the running pass has taken
    nPoints,         \* points of their geometries
    run,             \* layout passes started on this bucket
    fresh            \* what the running pass writes to a bucket that never ran one

layoutVars == <<layout, bucket, pc, feature, shaped, anchors, nFeatures, nPoints, run, fresh>>

\* the text layout properties of one feature, looked at on their own
VARIABLES
    style,           \* the evaluated text-* layout properties of a feature
    resolved         \* what performSymbolLayout derives from them

styleVars == <<style, resolved>>

\* no feature's properties are being looked at
NoStyle == [given |-> FALSE]

NoResolved == [done |-> FALSE]

StyleIdle == style = NoStyle /\ resolved = NoResolved

\* everything but the bucket's layout pass
\* the capacity guards of addSymbol, looked at on their own
VARIABLES
    packed           \* the bucket as far as sizes, glyph count and warnings go

NoPacked == [on |-> FALSE]

PackedIdle == packed = NoPacked

\* the image queue of util/ajax
VARIABLES
    imageQueue,                    \* the requests waiting, oldest first
    currentParallelImageRequests,  \* the requests counted as in flight
    requests,                      \* the request objects getImage has made
    imageQueueThrottleControlCallbacks,
    imageQueueThrottleControlCallbackHandleCounter,
    moving,                        \* the callbacks that return true now
    outcome                        \* how the last call ended

queueVars == <<imageQueue, currentParallelImageRequests, requests,
               imageQueueThrottleControlCallbacks,
               imageQueueThrottleControlCallbackHandleCounter, moving, outcome>>

\* a TaskQueue (util/task_queue)
VARIABLES
    taskQueue,       \* _queue: the tasks added and not yet taken by run()
    taskId,          \* _id: the id of the last task added
    running,         \* _currentlyRunning: the tasks run() took, <<>> if none
    isRunning,       \* whether run() is under way
    cleared,         \* _cleared
    position,        \* the index in running of the task run() reaches next
    taskRuns,        \* the run() calls so far
    calls,           \* the tasks called so far with their run, in call order
    removedIds,      \* the ids remove() was called with before their call
    clearedIds,      \* the ids of the tasks clear() has discarded
    thrown           \* whether a call on the queue has thrown

taskVars == <<taskQueue, taskId, running, isRunning, cleared, position, taskRuns,
              calls, removedIds, clearedIds, thrown>>

\* a GeoJSONWorkerSource (source/geojson_worker_source)
VARIABLES
    worker           \* its state, pending request, running load and callbacks' results

\* the requests made with makeFetchRequest (util/ajax)
VARIABLES
    fetches

\* one call of loadSprite (style/load_sprite)
VARIABLES
    sprite

\* a GlobeTransform and the clock (geo/projection/globe_transform)
VARIABLES
    globe

nonLayoutVars == <<styleVars, packed, queueVars, taskVars, worker, fetches, sprite, globe>>

vars == <<layoutVars, nonLayoutVars>>

(* ------------------------------------------------------------------ *)
(* Helpers                                                            *)
(* ------------------------------------------------------------------ *)

RECURSIVE SeqSum(_)
SeqSum(s) == IF s = <<>> THEN 0 ELSE Head(s) + SeqSum(Tail(s))

RECURSIVE Flatten(_)
Flatten(ss) == IF ss = <<>> THEN <<>> ELSE Head(ss) \o Flatten(Tail(ss))

(* ------------------------------------------------------------------ *)
(* Shaping (performSymbolLayout, the body of the feature loop)        *)
(* ------------------------------------------------------------------ *)

\* the glyphs a text needs depend on the writing mode (the vertical form of
\* its punctuation is other code points): "VerticalOnly" is a text of which
\* only the vertical form has glyphs
Renderable(f, writingMode) ==
    f.lines > 0 /\ (f.text = "VerticalOnly" => writingMode = "vertical")

\* shapeText: null when the text has nothing renderable, otherwise the
\* positioned lines of the text in the requested justification and mode
shapeText(f, justify, writingMode) ==
    IF Renderable(f, writingMode)
    THEN [text |-> f.text, lines |-> f.lines,
          justify |-> justify, writingMode |-> writingMode]
    ELSE NoShaping

\* allowsVerticalWritingMode: scripts that can be written top to bottom
allowsVerticalWritingMode(text) == text \in {"Kanji", "VerticalOnly"}

\* a justification that knows the anchors left and right only
getAnchorJustification_NoCorners(anchor) ==
    CASE anchor = "right" -> "right"
      [] anchor = "left" -> "left"
      [] OTHER -> "center"

\* a justification that falls back to left
getAnchorJustification_LeftFallback(anchor) ==
    CASE anchor \in {"right", "top-right", "bottom-right"} -> "right"
      [] OTHER -> "left"

\* Choose the justification that matches the direction of the TextAnchor
getAnchorJustification(anchor) ==
    CASE anchor \in {"right", "top-right", "bottom-right"} -> "right"
      [] anchor \in {"left", "top-left", "bottom-left"} -> "left"
      [] OTHER -> "center"

TextAlongLine(lay) ==
    lay.textRotationAlignment # "viewport" /\ lay.symbolPlacement # "point"

\* the record shapedTextOrientations.horizontal: its keys in insertion order
HorizontalKeys(horizontal) == [i \in 1..Len(horizontal) |-> horizontal[i].justify]

HorizontalHas(horizontal, j) == \E i \in 1..Len(horizontal) : horizontal[i].justify = j

\* horizontal[j]; undefined for a key that was never set
HorizontalGet(horizontal, j) ==
    IF HorizontalHas(horizontal, j)
    THEN horizontal[CHOOSE i \in 1..Len(horizontal) : horizontal[i].justify = j].shaping
    ELSE NoShaping

\* horizontal[j] = shaping
HorizontalSet(horizontal, j, shaping) ==
    IF HorizontalHas(horizontal, j)
    THEN [i \in 1..Len(horizontal) |->
            IF horizontal[i].justify = j
            THEN [justify |-> j, shaping |-> shaping] ELSE horizontal[i]]
    ELSE Append(horizontal, [justify |-> j, shaping |-> shaping])

\* new Set<TextJustify>() filled by add(): the first occurrence keeps its place
RECURSIVE JustificationSet(_, _)
JustificationSet(anchorList, acc) ==
    IF anchorList = <<>> THEN acc
    ELSE LET j == getAnchorJustification(Head(anchorList)) IN
         JustificationSet(Tail(anchorList),
                          IF \E i \in 1..Len(acc) : acc[i] = j THEN acc ELSE Append(acc, j))

\* the shaping reused for the later justifications once one is single-line
ReusedShaping(horizontal) == HorizontalGet(horizontal, "0")

\* the loop over the justifications of a layer with text-variable-anchor
RECURSIVE ShapeJustifications(_, _, _, _)
ShapeJustifications(js, horizontal, singleLine, f) ==
    IF js = <<>> THEN horizontal
    ELSE LET j == Head(js) IN
         IF Truthy(HorizontalGet(horizontal, j))
         THEN ShapeJustifications(Tail(js), horizontal, singleLine, f)
         ELSE IF singleLine
         THEN ShapeJustifications(Tail(js),
                  HorizontalSet(horizontal, j, ReusedShaping(horizontal)),
                  singleLine, f)
         ELSE LET shaping == shapeText(f, j, "horizontal") IN
              IF Truthy(shaping)
              THEN ShapeJustifications(Tail(js), HorizontalSet(horizontal, j, shaping),
                                       shaping.lines = 1, f)
              ELSE ShapeJustifications(Tail(js), horizontal, singleLine, f)

\* addVerticalShapingForPointLabelIfNeeded
VerticalShapingForPointLabel(lay, f) ==
    IF lay.allowVerticalPlacement /\ allowsVerticalWritingMode(f.text)
    THEN shapeText(f, "left", "vertical")
    ELSE NoShaping

\* shapedTextOrientations of one feature
ShapeTextOrientations(lay, f) ==
    IF f.text = ""
    THEN [horizontal |-> <<>>, vertical |-> NoShaping]
    ELSE IF ~TextAlongLine(lay) /\ lay.variableAnchor # <<>>
    THEN LET js == IF lay.textJustify = "auto"
                   THEN JustificationSet(lay.variableAnchor, <<>>)
                   ELSE <<lay.textJustify>>
         IN [horizontal |-> ShapeJustifications(js, <<>>, FALSE, f),
             vertical |-> VerticalShapingForPointLabel(lay, f)]
    ELSE LET textJustify0 == IF TextAlongLine(lay) THEN "center" ELSE lay.textJustify
             textJustify == IF textJustify0 = "auto"
                            THEN getAnchorJustification(lay.textAnchor)
                            ELSE textJustify0
             shaping == shapeText(f, textJustify, "horizontal")
             pointVertical == VerticalShapingForPointLabel(lay, f)
         IN [horizontal |-> IF Truthy(shaping)
                            THEN <<[justify |-> textJustify, shaping |-> shaping]>>
                            ELSE <<>>,
             vertical |-> IF allowsVerticalWritingMode(f.text)
                             /\ TextAlongLine(lay) /\ lay.keepUpright
                          THEN shapeText(f, textJustify, "vertical")
                          ELSE pointVertical]

\* an icon counted as shaped as soon as the feature names one
ShapeIcon_NameOnly(f) == f.icon # ""

\* shapedIcon is set when the feature names an icon that is in the image map
ShapeIcon(f) == f.icon # "" /\ f.icon \in ImageMap

\* the first shaping of the record, whatever its justification
getDefaultHorizontalShaping(horizontal) ==
    IF horizontal = <<>> THEN NoShaping ELSE horizontal[1].shaping

\* verticallyShapedIcon of addFeature: fitIconToText on the vertical shaping
VerticallyShapedIcon(lay, orientations, shapedIcon) ==
    /\ shapedIcon
    /\ lay.iconTextFit # "none"
    /\ lay.allowVerticalPlacement
    /\ Truthy(orientations.vertical)


(* ------------------------------------------------------------------ *)
(* The bucket's arrays                                                *)
(* ------------------------------------------------------------------ *)

\* keys of placedTextSymbolIndices
PlacementTypes == {"right", "center", "left", "vertical"}

\* placedTextSymbolIndices = {}: no key is set
NoPlacedTextSymbolIndices == [k \in PlacementTypes |-> -1]

\* glyph quads of a shaping (getGlyphQuads): one per glyph of the text
GlyphQuads(shaping) ==
    CASE shaping.text = "Hello" -> 5
      [] shaping.text = "Kanji" -> 2
      [] shaping.text = "VerticalOnly" -> 1
      [] OTHER -> 0

\* icon quads of a shaped icon (getIconQuads)
IconQuads == 1

\* boxes a collision feature appends: none when the boxes follow the line
\* (circles are used at placement time), otherwise one per positioned line
\* of a text and one for an icon
CollisionBoxes(lines, alignLine) == IF alignLine THEN 0 ELSE lines

\* the smallest circle diameter of a line-aligned collision feature
MinCircleDiameter == 10

\* the circleDiameter of a collision feature in glyph units: the height of a
\* line-aligned shape, at least MinCircleDiameter; 0 where none is set
CircleDiameter(lines, alignLine) ==
    LET height == lines * ONE_EM IN
    IF alignLine /\ height > 0
    THEN (IF height > MinCircleDiameter THEN height ELSE MinCircleDiameter)
    ELSE 0

\* new CollisionFeature(collisionBoxArray, ...): appends its boxes to the
\* shared array and keeps the range [boxStartIndex, boxEndIndex)
CollisionFeature(collisionBoxArray, featureIndex, lines, alignLine) ==
    LET n == CollisionBoxes(lines, alignLine) IN
    [boxStartIndex |-> Len(collisionBoxArray),
     boxEndIndex |-> Len(collisionBoxArray) + n,
     circleDiameter |-> CircleDiameter(lines, alignLine),
     array |-> collisionBoxArray \o [i \in 1..n |-> featureIndex]]

\* getCollisionCircleHeight(feature, prevHeight) of addSymbol; exists tells
\* whether the collision feature was made
getCollisionCircleHeight(exists, cf, prevHeight) ==
    IF exists /\ cf.circleDiameter # 0
    THEN (IF cf.circleDiameter > prevHeight THEN cf.circleDiameter ELSE prevHeight)
    ELSE prevHeight

\* a number n / d
Ratio(n, d) == [num |-> n, den |-> d]

\* a circle diameter left in glyph units
ConvertCircleDiameter_GlyphUnits(diameter, layoutTextSize) == Ratio(diameter, 1)

\* collisionCircleDiameter *= layoutTextSize / ONE_EM
ConvertCircleDiameter(diameter, layoutTextSize) ==
    Ratio(diameter * layoutTextSize, ONE_EM)

\* a missing range stored as the empty range at the start of the array
MissingRangeIndex_Zero(collisionBoxArray) == 0

\* the range stored for a kind that has no collision feature
MissingRangeIndex(collisionBoxArray) == Len(collisionBoxArray)

\* bucket.addSymbols(arrays, quads, ..., associatedIconIndex): one entry of
\* placedSymbolArray per call
addSymbols(placedSymbolArray, writingMode, numGlyphs, associatedIconIndex) ==
    Append(placedSymbolArray,
           [writingMode |-> writingMode, numGlyphs |-> numGlyphs,
            associatedIconIndex |-> associatedIconIndex])

\* addTextVertices that passes no icon index on
addTextVertices_NoIcon(textArray, shaping, writingMode, placementTypes, indices, placedIconIndex) ==
    LET array == addSymbols(textArray, writingMode, GlyphQuads(shaping), -1) IN
    [array |-> array,
     indices |-> [k \in PlacementTypes |->
                    IF \E i \in 1..Len(placementTypes) : placementTypes[i] = k
                    THEN Len(array) - 1
                    ELSE indices[k]],
     vertices |-> GlyphQuads(shaping) * 4]

\* addTextVertices: appends the shaping's placed symbol and records its index
\* under every placement type given
addTextVertices(textArray, shaping, writingMode, placementTypes, indices, placedIconIndex) ==
    LET array == addSymbols(textArray, writingMode, GlyphQuads(shaping), placedIconIndex) IN
    [array |-> array,
     indices |-> [k \in PlacementTypes |->
                    IF \E i \in 1..Len(placementTypes) : placementTypes[i] = k
                    THEN Len(array) - 1
                    ELSE indices[k]],
     vertices |-> GlyphQuads(shaping) * 4]

\* the loop recording every entry under its own justification only
RECURSIVE HorizontalLoop_OwnKeyOnly(_, _, _, _, _, _, _)
HorizontalLoop_OwnKeyOnly(i, horizontal, hasVertical, textArray, indices, vertices, placedIconIndex) ==
    IF i > Len(horizontal) \/ ~Truthy(horizontal[i].shaping)
    THEN [array |-> textArray, indices |-> indices, vertices |-> vertices]
    ELSE LET shaping == horizontal[i].shaping
             singleLine == shaping.lines = 1
             r == addTextVertices(textArray, shaping,
                      IF hasVertical THEN "horizontal" ELSE "horizontalOnly",
                      <<horizontal[i].justify>>,
                      indices, placedIconIndex)
         IN IF singleLine
            THEN [array |-> r.array, indices |-> r.indices,
                  vertices |-> vertices + r.vertices]
            ELSE HorizontalLoop_OwnKeyOnly(i + 1, horizontal, hasVertical, r.array,
                                           r.indices, vertices + r.vertices,
                                           placedIconIndex)

\* the loop of addSymbol over Object.keys(shapedTextOrientations.horizontal),
\* from key i on; it stops after a single-line shaping
RECURSIVE HorizontalLoop(_, _, _, _, _, _, _)
HorizontalLoop(i, horizontal, hasVertical, textArray, indices, vertices, placedIconIndex) ==
    IF i > Len(horizontal) \/ ~Truthy(horizontal[i].shaping)
    THEN [array |-> textArray, indices |-> indices, vertices |-> vertices]
    ELSE LET shaping == horizontal[i].shaping
             singleLine == shaping.lines = 1
             r == addTextVertices(textArray, shaping,
                      IF hasVertical THEN "horizontal" ELSE "horizontalOnly",
                      IF singleLine THEN HorizontalKeys(horizontal)
                                    ELSE <<horizontal[i].justify>>,
                      indices, placedIconIndex)
         IN IF singleLine
            THEN [array |-> r.array, indices |-> r.indices,
                  vertices |-> vertices + r.vertices]
            ELSE HorizontalLoop(i + 1, horizontal, hasVertical, r.array, r.indices,
                                vertices + r.vertices, placedIconIndex)

\* placedTextSymbolIndices.vertical || -1
VerticalTextSymbolIndex(indices) ==
    IF indices["vertical"] = 0 \/ indices["vertical"] = -1 THEN -1 ELSE indices["vertical"]

\* placedTextSymbolIndices.k >= 0 ? placedTextSymbolIndices.k : -1
HorizontalTextSymbolIndex(indices, k) == IF indices[k] >= 0 THEN indices[k] ELSE -1

\* Add a single label & icon placement.
addSymbol(b, anchor, orientations, shapedIcon, verticallyShapedIcon, lay, featureIndex) ==
    LET hasVertical == Truthy(orientations.vertical)
        horizontal == orientations.horizontal
        alongLine == TextAlongLine(lay)
        \* collision features of the vertical text and the vertical icon
        hasVerticalText == lay.allowVerticalPlacement /\ hasVertical
        verticalTextCF == CollisionFeature(b.collisionBoxArray, featureIndex,
                                           orientations.vertical.lines, alongLine)
        cba1 == IF hasVerticalText THEN verticalTextCF.array ELSE b.collisionBoxArray
        hasVerticalIcon == hasVerticalText /\ verticallyShapedIcon
        verticalIconCF == CollisionFeature(cba1, featureIndex, 1, alongLine)
        cba2 == IF hasVerticalIcon THEN verticalIconCF.array ELSE cba1
        \* the icon goes first
        iconCF == CollisionFeature(cba2, featureIndex, 1, FALSE)
        cba3 == IF shapedIcon THEN iconCF.array ELSE cba2
        icon1 == IF shapedIcon THEN addSymbols(b.icon, "none", IconQuads, -1) ELSE b.icon
        placedIconSymbolIndex == IF shapedIcon THEN Len(icon1) - 1 ELSE -1
        hasVerticalIconQuads == shapedIcon /\ verticallyShapedIcon
        icon2 == IF hasVerticalIconQuads
                 THEN addSymbols(icon1, "vertical", IconQuads, -1) ELSE icon1
        verticalPlacedIconSymbolIndex == IF hasVerticalIconQuads THEN Len(icon2) - 1 ELSE -1
        \* the horizontal justifications
        hasText == horizontal # <<>>
        textCF == CollisionFeature(cba3, featureIndex,
                                   getDefaultHorizontalShaping(horizontal).lines, alongLine)
        cba4 == IF hasText THEN textCF.array ELSE cba3
        h == HorizontalLoop(1, horizontal, hasVertical, b.text,
                            NoPlacedTextSymbolIndices, 0, placedIconSymbolIndex)
        \* the vertical text
        v == addTextVertices(h.array, orientations.vertical, "vertical", <<"vertical">>,
                             h.indices, verticalPlacedIconSymbolIndex)
        text2 == IF hasVertical THEN v.array ELSE h.array
        indices == IF hasVertical THEN v.indices ELSE h.indices
        missing == MissingRangeIndex(cba4)
        \* the tallest circle of the collision features
        d1 == getCollisionCircleHeight(hasText, textCF, -1)
        d2 == getCollisionCircleHeight(hasVerticalText, verticalTextCF, d1)
        d3 == getCollisionCircleHeight(shapedIcon, iconCF, d2)
        d4 == getCollisionCircleHeight(hasVerticalIcon, verticalIconCF, d3)
        useRuntimeCollisionCircles == IF d4 > -1 THEN 1 ELSE 0
        instance ==
            [anchorX |-> anchor[1],
             anchorY |-> anchor[2],
             rightJustifiedTextSymbolIndex |-> HorizontalTextSymbolIndex(indices, "right"),
             centerJustifiedTextSymbolIndex |-> HorizontalTextSymbolIndex(indices, "center"),
             leftJustifiedTextSymbolIndex |-> HorizontalTextSymbolIndex(indices, "left"),
             verticalPlacedTextSymbolIndex |-> VerticalTextSymbolIndex(indices),
             placedIconSymbolIndex |-> placedIconSymbolIndex,
             verticalPlacedIconSymbolIndex |-> verticalPlacedIconSymbolIndex,
             key |-> getDefaultHorizontalShaping(horizontal).text,
             textBoxStartIndex |-> IF hasText THEN textCF.boxStartIndex ELSE missing,
             textBoxEndIndex |-> IF hasText THEN textCF.boxEndIndex ELSE missing,
             verticalTextBoxStartIndex |->
                 IF hasVerticalText THEN verticalTextCF.boxStartIndex ELSE missing,
             verticalTextBoxEndIndex |->
                 IF hasVerticalText THEN verticalTextCF.boxEndIndex ELSE missing,
             iconBoxStartIndex |-> IF shapedIcon THEN iconCF.boxStartIndex ELSE missing,
             iconBoxEndIndex |-> IF shapedIcon THEN iconCF.boxEndIndex ELSE missing,
             verticalIconBoxStartIndex |->
                 IF hasVerticalIcon THEN verticalIconCF.boxStartIndex ELSE missing,
             verticalIconBoxEndIndex |->
                 IF hasVerticalIcon THEN verticalIconCF.boxEndIndex ELSE missing,
             featureIndex |-> featureIndex,
             numHorizontalGlyphVertices |-> h.vertices,
             numVerticalGlyphVertices |-> IF hasVertical THEN v.vertices ELSE 0,
             numIconVertices |-> IF shapedIcon THEN IconQuads * 4 ELSE 0,
             numVerticalIconVertices |-> IF hasVerticalIconQuads THEN IconQuads * 4 ELSE 0,
             useRuntimeCollisionCircles |-> useRuntimeCollisionCircles,
             collisionCircleDiameter |->
                 IF useRuntimeCollisionCircles = 1
                 THEN ConvertCircleDiameter(d4, lay.textSize)
                 ELSE Ratio(d4, 1)]
    IN [b EXCEPT !.collisionBoxArray = cba4,
                 !.icon = icon2,
                 !.text = text2,
                 !.symbolInstances = Append(@, instance)]

(* ------------------------------------------------------------------ *)
(* Anchors (addFeature)                                               *)
(* ------------------------------------------------------------------ *)

\* the tile-bounds test with the upper bounds included
InTile_Inclusive(anchor) ==
    ~(anchor[1] < 0 \/ anchor[1] > EXTENT \/ anchor[2] < 0 \/ anchor[2] > EXTENT)

\* the tile-bounds test of addSymbolAtAnchor
InTile(anchor) ==
    ~(anchor[1] < 0 \/ anchor[1] >= EXTENT \/ anchor[2] < 0 \/ anchor[2] >= EXTENT)

\* bucket.tilePixelRatio = EXTENT / tileSize
TilePixelRatio(lay) == EXTENT \div (TileSizeBase * lay.overscaling)

\* symbolMinDistance = bucket.tilePixelRatio * symbol-spacing
SymbolMinDistance(lay) == TilePixelRatio(lay) * lay.symbolSpacing

DistSq(a, b) == (a[1] - b[1]) * (a[1] - b[1]) + (a[2] - b[2]) * (a[2] - b[2])

\* anchor.dist(other) < textRepeatDistance, with textRepeatDistance =
\* symbolMinDistance / 2: both sides squared and multiplied by 4
CloserThanRepeatDistance(lay, a, b) ==
    4 * DistSq(a, b) < SymbolMinDistance(lay) * SymbolMinDistance(lay)

\* anchorIsTooClose that starts the list of a new text empty
anchorIsTooClose_FirstUnrecorded(compareText, text, lay, anchor) ==
    IF text \notin DOMAIN compareText
    THEN [tooClose |-> FALSE,
          compareText |-> [t \in DOMAIN compareText \cup {text} |->
                              IF t = text THEN <<>> ELSE compareText[t]]]
    ELSE IF \E k \in 1..Len(compareText[text]) :
                CloserThanRepeatDistance(lay, anchor, compareText[text][k])
    THEN [tooClose |-> TRUE, compareText |-> compareText]
    ELSE [tooClose |-> FALSE,
          compareText |-> [compareText EXCEPT ![text] = Append(@, anchor)]]

\* anchorIsTooClose: the answer and bucket.compareText afterwards
anchorIsTooClose(compareText, text, lay, anchor) ==
    IF text \notin DOMAIN compareText
    THEN [tooClose |-> FALSE,
          compareText |-> [t \in DOMAIN compareText \cup {text} |->
                              IF t = text THEN <<anchor>> ELSE compareText[t]]]
    ELSE IF \E k \in 1..Len(compareText[text]) :
                CloserThanRepeatDistance(lay, anchor, compareText[text][k])
    THEN [tooClose |-> TRUE, compareText |-> compareText]
    ELSE [tooClose |-> FALSE,
          compareText |-> [compareText EXCEPT ![text] = Append(@, anchor)]]

\* clipLine(geometry, 0, 0, EXTENT, EXTENT): the parts of the lines inside
\* the closed box; lines left without a vertex are dropped
InClipBox(p) == p[1] >= 0 /\ p[1] <= EXTENT /\ p[2] >= 0 /\ p[2] <= EXTENT

RECURSIVE clipLine(_)
clipLine(geometry) ==
    IF geometry = <<>> THEN <<>>
    ELSE LET line == SelectSeq(Head(geometry), InClipBox) IN
         (IF line = <<>> THEN <<>> ELSE <<line>>) \o clipLine(Tail(geometry))

\* getAnchors: the sample positions along one line; the vertices of the
\* model's lines stand for them
getAnchors(line) == line

\* getCenterAnchor: the anchor nearest the line's center
getCenterAnchor(line) == line[(Len(line) + 1) \div 2]

\* findPoleOfInaccessibility of a classified polygon, given by its outer ring
findPoleOfInaccessibility(ring) == ring[1]

RECURSIVE LineAnchors(_)
LineAnchors(lines) ==
    IF lines = <<>> THEN <<>> ELSE getAnchors(Head(lines)) \o LineAnchors(Tail(lines))

RECURSIVE LineCenterAnchors(_)
LineCenterAnchors(lines) ==
    IF lines = <<>> THEN <<>>
    ELSE (IF Len(Head(lines)) > 1 THEN <<getCenterAnchor(Head(lines))>> ELSE <<>>)
         \o LineCenterAnchors(Tail(lines))

\* classifyRings(geometry, 0): the rings grouped into polygons; every ring of
\* the model is an outer ring, so a polygon of its own
classifyRings(geometry) == geometry

RECURSIVE PolygonAnchors(_)
PolygonAnchors(polygons) ==
    IF polygons = <<>> THEN <<>>
    ELSE <<findPoleOfInaccessibility(Head(polygons))>> \o PolygonAnchors(Tail(polygons))

RECURSIVE LineStartAnchors(_)
LineStartAnchors(lines) ==
    IF lines = <<>> THEN <<>> ELSE <<Head(lines)[1]>> \o LineStartAnchors(Tail(lines))

\* the dispatch with the geometry type looked at before the placement
FeatureAnchors_TypeFirst(lay, f) ==
    CASE f.type = "Polygon" -> PolygonAnchors(classifyRings(f.geometry))
      [] f.type = "Point" -> Flatten(f.geometry)
      [] lay.symbolPlacement = "line" -> LineAnchors(clipLine(f.geometry))
      [] lay.symbolPlacement = "line-center" -> LineCenterAnchors(f.geometry)
      [] f.type = "LineString" -> LineStartAnchors(f.geometry)
      [] OTHER -> <<>>

\* the dispatch with Point features handled like LineString features
FeatureAnchors_FirstPoint(lay, f) ==
    CASE lay.symbolPlacement = "line" -> LineAnchors(clipLine(f.geometry))
      [] lay.symbolPlacement = "line-center" -> LineCenterAnchors(f.geometry)
      [] OTHER ->
           CASE f.type = "Polygon" -> PolygonAnchors(f.geometry)
             [] f.type = "LineString" -> LineStartAnchors(f.geometry)
             [] f.type = "Point" -> LineStartAnchors(f.geometry)
             [] OTHER -> <<>>

\* the anchors addFeature visits, in order
FeatureAnchors(lay, f) ==
    CASE lay.symbolPlacement = "line" -> LineAnchors(clipLine(f.geometry))
      [] lay.symbolPlacement = "line-center" -> LineCenterAnchors(f.geometry)
      [] OTHER ->
           CASE f.type = "Polygon" -> PolygonAnchors(classifyRings(f.geometry))
             [] f.type = "LineString" -> LineStartAnchors(f.geometry)
             [] f.type = "Point" -> Flatten(f.geometry)
             [] OTHER -> <<>>

\* addSymbolAtAnchor: anchors outside the tile are dropped
addSymbolAtAnchor(b, anchor, sh, lay, featureIndex) ==
    IF ~InTile(anchor) THEN b
    ELSE addSymbol(b, anchor, sh.orientations, sh.icon, sh.verticalIcon, lay, featureIndex)

\* one turn of the anchor loops of addFeature
VisitAnchor(b, anchor, sh, lay, featureIndex) ==
    LET shapedText == getDefaultHorizontalShaping(sh.orientations.horizontal) IN
    IF lay.symbolPlacement = "line" /\ Truthy(shapedText)
    THEN LET r == anchorIsTooClose(b.compareText, shapedText.text, lay, anchor)
             b1 == [b EXCEPT !.compareText = r.compareText]
         IN IF r.tooClose THEN b1 ELSE addSymbolAtAnchor(b1, anchor, sh, lay, featureIndex)
    ELSE addSymbolAtAnchor(b, anchor, sh, lay, featureIndex)

(* ------------------------------------------------------------------ *)
(* The image queue (util/ajax)                                        *)
(* ------------------------------------------------------------------ *)

\* a request object that getImage has not made yet
NoRequest == [made |-> FALSE, cancelled |-> FALSE, completed |-> FALSE,
              innerRequest |-> FALSE]

\* JavaScript values kept in or looked up in the callback array
Function(id) == [type |-> "function", v |-> id]
Number(n) == [type |-> "number", v |-> n]

\* resetImageRequestQueue() at module load, no callback installed
QueueIdle ==
    /\ imageQueue = <<>>
    /\ currentParallelImageRequests = 0
    /\ requests = [r \in 1..MaxRequests |-> NoRequest]
    /\ imageQueueThrottleControlCallbacks = <<>>
    /\ imageQueueThrottleControlCallbackHandleCounter = 0
    /\ moving = {}
    /\ outcome = "none"

\* isImageQueueThrottled(): some installed callback returns true
isImageQueueThrottled(callbacks, mov) ==
    \E i \in 1..Len(callbacks) : callbacks[i].v \in mov

\* a loop that goes on while requests are queued
LoopContinues_QueueOnly(numImageRequests, maxImageRequests, queue) ==
    Len(queue) > 0

\* numImageRequests < maxImageRequests && imageQueue.length
LoopContinues(numImageRequests, maxImageRequests, queue) ==
    numImageRequests < maxImageRequests /\ Len(queue) > 0

\* the loop of processImageRequestQueue from numImageRequests on: a
\* cancelled request is dropped, another one is requested and counted
RECURSIVE ProcessLoop(_, _, _, _, _)
ProcessLoop(queue, reqs, current, numImageRequests, maxImageRequests) ==
    IF ~LoopContinues(numImageRequests, maxImageRequests, queue)
    THEN [imageQueue |-> queue, requests |-> reqs,
          currentParallelImageRequests |-> current]
    ELSE LET r == Head(queue) IN
         IF reqs[r].cancelled
         THEN ProcessLoop(Tail(queue), reqs, current,
                          numImageRequests + 1, maxImageRequests)
         ELSE ProcessLoop(Tail(queue),
                          [reqs EXCEPT ![r].innerRequest = TRUE],
                          current + 1, numImageRequests + 1, maxImageRequests)

\* processImageRequestQueue(maxImageRequests); 0 stands for a falsy argument
processImageRequestQueue(queue, reqs, current, maxImageRequests) ==
    LET room == MAX_PARALLEL_IMAGE_REQUESTS - current
        max == IF maxImageRequests = 0
               THEN (IF room > 0 THEN room ELSE 0)
               ELSE maxImageRequests
    IN ProcessLoop(queue, reqs, current, current, max)

\* if (!isImageQueueThrottled()) processImageRequestQueue(config.MAX_PARALLEL_IMAGE_REQUESTS)
ProcessUnlessThrottled(queue, reqs, current) ==
    LET after == IF isImageQueueThrottled(imageQueueThrottleControlCallbacks, moving)
                 THEN [imageQueue |-> queue, requests |-> reqs,
                       currentParallelImageRequests |-> current]
                 ELSE processImageRequestQueue(queue, reqs, current,
                                               MAX_PARALLEL_IMAGE_REQUESTS)
    IN /\ imageQueue' = after.imageQueue
       /\ requests' = after.requests
       /\ currentParallelImageRequests' = after.currentParallelImageRequests

callbackVars == <<imageQueueThrottleControlCallbacks,
                  imageQueueThrottleControlCallbackHandleCounter, moving>>

\* the request objects made so far
Made == { r \in 1..MaxRequests : requests[r].made }

\* getImage(requestParameters, callback)
GetImage ==
    /\ Cardinality(Made) < MaxRequests
    /\ LET r == Cardinality(Made) + 1 IN
       ProcessUnlessThrottled(Append(imageQueue, r),
                              [requests EXCEPT ![r].made = TRUE],
                              currentParallelImageRequests)
    /\ outcome' = "queued"
    /\ UNCHANGED <<callbackVars, layoutVars, styleVars, packed, taskVars, worker, fetches, sprite, globe>>

\* request.cancel() of a request that was not handed to doArrayRequest: the
\* cancel() of the object getImage made
CancelQueued(r) ==
    /\ requests[r].made /\ ~requests[r].innerRequest
    /\ ProcessUnlessThrottled(imageQueue,
                              [requests EXCEPT ![r].cancelled = TRUE],
                              currentParallelImageRequests)
    /\ outcome' = "cancelled"
    /\ UNCHANGED <<callbackVars, layoutVars, styleVars, packed, taskVars, worker, fetches, sprite, globe>>

\* request.cancel() of a request handed to doArrayRequest: cancelRequest()
\* is called as a plain function, its this is undefined in module code and
\* reading this.completed throws before anything is changed
CancelRequested(r) ==
    /\ requests[r].made /\ requests[r].innerRequest
    /\ outcome' = "TypeError"
    /\ UNCHANGED <<imageQueue, currentParallelImageRequests, requests,
                   callbackVars, layoutVars, styleVars, packed, taskVars, worker, fetches, sprite, globe>>

\* the callback doArrayRequest gave to getArrayBuffer runs
CompleteRequest(r) ==
    /\ requests[r].innerRequest /\ ~requests[r].completed
    /\ IF ~requests[r].cancelled
       THEN ProcessUnlessThrottled(imageQueue,
                                   [requests EXCEPT ![r].completed = TRUE],
                                   currentParallelImageRequests - 1)
       ELSE UNCHANGED <<imageQueue, currentParallelImageRequests, requests>>
    /\ outcome' = "completed"
    /\ UNCHANGED <<callbackVars, layoutVars, styleVars, packed, taskVars, worker, fetches, sprite, globe>>

\* processImageRequestQueue called from the render loop, without an argument
\* or with config.MAX_PARALLEL_IMAGE_REQUESTS
ProcessImageRequestQueue(maxImageRequests) ==
    /\ LET after == processImageRequestQueue(imageQueue, requests,
                        currentParallelImageRequests, maxImageRequests)
       IN /\ imageQueue' = after.imageQueue
          /\ requests' = after.requests
          /\ currentParallelImageRequests' = after.currentParallelImageRequests
    /\ outcome' = "processed"
    /\ UNCHANGED <<callbackVars, layoutVars, styleVars, packed, taskVars, worker, fetches, sprite, globe>>

\* array.indexOf(value, 0) as an index from 0, -1 when no element is value
IndexOf(array, value) ==
    IF \E i \in 1..Len(array) : array[i] = value
    THEN (CHOOSE i \in 1..Len(array) :
              array[i] = value /\ \A j \in 1..(i - 1) : array[j] # value) - 1
    ELSE -1

\* array.splice(index, 1)
Splice(array, index) ==
    SubSeq(array, 1, index) \o SubSeq(array, index + 2, Len(array))

\* installImageQueueThrottleControlCallback(callback): the callback is put
\* at the index of its handle; the callbacks are installed in their order
InstallImageQueueThrottleControlCallback(cb) ==
    /\ imageQueueThrottleControlCallbackHandleCounter < MaxCallbacks
    /\ cb = imageQueueThrottleControlCallbackHandleCounter + 1
    /\ Len(imageQueueThrottleControlCallbacks)
           = imageQueueThrottleControlCallbackHandleCounter
    /\ imageQueueThrottleControlCallbacks'
           = Append(imageQueueThrottleControlCallbacks, Function(cb))
    /\ imageQueueThrottleControlCallbackHandleCounter'
           = imageQueueThrottleControlCallbackHandleCounter + 1
    /\ outcome' = "installed"
    /\ UNCHANGED <<imageQueue, currentParallelImageRequests, requests, moving,
                   layoutVars, styleVars, packed, taskVars, worker, fetches, sprite, globe>>

\* removeImageQueueThrottleControlCallback(callbackHandle): the handle, a
\* number, is looked up among the callbacks
RemoveImageQueueThrottleControlCallback(callbackHandle) ==
    /\ callbackHandle < imageQueueThrottleControlCallbackHandleCounter
    /\ LET index == IndexOf(imageQueueThrottleControlCallbacks,
                            Number(callbackHandle))
       IN imageQueueThrottleControlCallbacks'
              = IF index >= 0
                THEN Splice(imageQueueThrottleControlCallbacks, index)
                ELSE imageQueueThrottleControlCallbacks
    /\ outcome' = "removed"
    /\ UNCHANGED <<imageQueue, currentParallelImageRequests, requests,
                   imageQueueThrottleControlCallbackHandleCounter, moving,
                   layoutVars, styleVars, packed, taskVars, worker, fetches, sprite, globe>>

\* the callbacks a caller installs
Callbacks == 1..MaxCallbacks

\* what a callback returns changes, as the map starts or stops moving
SetMoving(cb) ==
    /\ moving' = IF cb \in moving THEN moving \ {cb} ELSE moving \union {cb}
    /\ outcome' = "moving"
    /\ UNCHANGED <<imageQueue, currentParallelImageRequests, requests,
                   imageQueueThrottleControlCallbacks,
                   imageQueueThrottleControlCallbackHandleCounter,
                   layoutVars, styleVars, packed, taskVars, worker, fetches, sprite, globe>>

(* ------------------------------------------------------------------ *)
(* TaskQueue (util/task_queue)                                        *)
(* ------------------------------------------------------------------ *)

\* new TaskQueue()
TaskIdle ==
    /\ taskQueue = <<>>
    /\ taskId = 0
    /\ running = <<>>
    /\ isRunning = FALSE
    /\ cleared = FALSE
    /\ position = 0
    /\ taskRuns = 0
    /\ calls = <<>>
    /\ removedIds = {}
    /\ clearedIds = {}
    /\ thrown = FALSE

\* the callbacks a caller queues
TaskCallbacks == {"a", "b"}

\* add(callback) on the queue: the task gets the next id
AddTask(queue, id, callback) ==
    Append(queue, [callback |-> callback, id |-> id, cancelled |-> FALSE])

\* a removal that cancels every task of the callback of task id
CancelTask_SameCallback(tasks, id) ==
    [i \in 1..Len(tasks) |->
        IF \E j \in 1..Len(tasks) :
               tasks[j].id = id /\ tasks[j].callback = tasks[i].callback
        THEN [tasks[i] EXCEPT !.cancelled = TRUE]
        ELSE tasks[i]]

\* remove(id) on a list of tasks: the task with this id is marked cancelled
CancelTask(tasks, id) ==
    [i \in 1..Len(tasks) |->
        IF tasks[i].id = id THEN [tasks[i] EXCEPT !.cancelled = TRUE] ELSE tasks[i]]

\* an add(callback) from a callback that joins the run under way
AddDuringRun_IntoRun(queue, tasks, id, callback) ==
    [taskQueue |-> queue, running |-> AddTask(tasks, id, callback)]

\* add(callback) from a callback: run() has swapped the queue for an empty
\* one, which gets the task; the tasks of the run are left as they are
AddDuringRun(queue, tasks, id, callback) ==
    [taskQueue |-> AddTask(queue, id, callback), running |-> tasks]

\* whether a list of tasks has the task id
HasTask(tasks, id) == \E i \in 1..Len(tasks) : tasks[i].id = id

\* the ids of the tasks called
CalledIds(called) == { called[i].id : i \in 1..Len(called) }

\* a run() that calls a callback once however often it is queued
ShouldCall_OncePerCallback(task, called) ==
    /\ ~task.cancelled
    /\ \A i \in 1..Len(called) : called[i].callback # task.callback

\* run() calls a task unless it is cancelled
ShouldCall(task, called) == ~task.cancelled

\* q.add(callback) from outside a run
Add(callback) ==
    /\ ~isRunning /\ ~thrown
    /\ taskId < MaxTasks
    /\ taskId' = taskId + 1
    /\ taskQueue' = AddTask(taskQueue, taskId + 1, callback)
    /\ UNCHANGED <<running, isRunning, cleared, position, taskRuns, calls,
                   removedIds, clearedIds, thrown>>
    /\ UNCHANGED <<layoutVars, styleVars, packed, queueVars, worker, fetches, sprite, globe>>

\* q.remove(id): the waiting tasks and those of the run under way are
\* searched for the id; called are the tasks called up to now
RemoveEffect(id, called) ==
    /\ IF HasTask(taskQueue, id)
       THEN taskQueue' = CancelTask(taskQueue, id) /\ running' = running
       ELSE IF isRunning
       THEN taskQueue' = taskQueue /\ running' = CancelTask(running, id)
       ELSE UNCHANGED <<taskQueue, running>>
    /\ removedIds' = IF id \in CalledIds(called)
                     THEN removedIds ELSE removedIds \union {id}

\* q.remove(id) from outside a run
Remove(id) ==
    /\ ~isRunning /\ ~thrown
    /\ id \in 1..taskId
    /\ RemoveEffect(id, calls)
    /\ UNCHANGED <<taskId, isRunning, cleared, position, taskRuns, calls,
                   clearedIds, thrown>>
    /\ UNCHANGED <<layoutVars, styleVars, packed, queueVars, worker, fetches, sprite, globe>>

\* a clear() that lets the loop of run() go on
PositionAfterClear_NoBreak(tasks, pos) == pos + 1

\* where the loop of run() goes on after a callback's clear(): it breaks
PositionAfterClear(tasks, pos) == Len(tasks) + 1

\* the ids of a list of tasks
TaskIds(tasks) == { tasks[i].id : i \in 1..Len(tasks) }

\* q.clear() from outside a run
Clear ==
    /\ ~isRunning /\ ~thrown
    /\ taskQueue # <<>>
    /\ taskQueue' = <<>>
    /\ clearedIds' = clearedIds \union TaskIds(taskQueue)
    /\ UNCHANGED <<taskId, running, isRunning, cleared, position, taskRuns,
                   calls, removedIds, thrown>>
    /\ UNCHANGED <<layoutVars, styleVars, packed, queueVars, worker, fetches, sprite, globe>>

\* q.run() up to its loop: the waiting tasks become the running ones
RunBegin ==
    /\ ~isRunning /\ ~thrown
    /\ taskRuns < MaxTaskRuns
    /\ taskRuns' = taskRuns + 1
    /\ running' = taskQueue
    /\ taskQueue' = <<>>
    /\ isRunning' = TRUE
    /\ position' = 1
    /\ UNCHANGED <<taskId, cleared, calls, removedIds, clearedIds, thrown>>
    /\ UNCHANGED <<layoutVars, styleVars, packed, queueVars, worker, fetches, sprite, globe>>

\* the tasks the run number n called
CallsOfRun(n) ==
    LET InRun(c) == c.run = n IN SelectSeq(calls, InRun)

\* the loop of run() passes a cancelled task
SkipTask ==
    /\ isRunning /\ ~thrown
    /\ position <= Len(running)
    /\ ~ShouldCall(running[position], CallsOfRun(taskRuns))
    /\ position' = position + 1
    /\ UNCHANGED <<taskQueue, taskId, running, isRunning, cleared, taskRuns, calls,
                   removedIds, clearedIds, thrown>>
    /\ UNCHANGED <<layoutVars, styleVars, packed, queueVars, worker, fetches, sprite, globe>>

\* what a callback does with the queue while it is called
CallbackOps ==
    {[op |-> "none", arg |-> 0], [op |-> "add", arg |-> 0],
     [op |-> "clear", arg |-> 0], [op |-> "run", arg |-> 0]}
        \union { [op |-> "remove", arg |-> id] : id \in 1..MaxTasks }

\* the loop of run() calls the next task, whose callback does o
CallTask(o) ==
    /\ isRunning /\ ~thrown
    /\ position <= Len(running)
    /\ ShouldCall(running[position], CallsOfRun(taskRuns))
    /\ calls' = Append(calls, [callback |-> running[position].callback,
                               id |-> running[position].id, run |-> taskRuns])
    /\ CASE o.op = "none" ->
              /\ position' = position + 1
              /\ UNCHANGED <<taskQueue, taskId, running, cleared, removedIds,
                             clearedIds, thrown>>
         [] o.op = "add" ->
              /\ taskId < MaxTasks
              /\ taskId' = taskId + 1
              /\ LET added == AddDuringRun(taskQueue, running, taskId + 1,
                                           running[position].callback)
                 IN taskQueue' = added.taskQueue /\ running' = added.running
              /\ position' = position + 1
              /\ UNCHANGED <<cleared, removedIds, clearedIds, thrown>>
         [] o.op = "remove" ->
              /\ o.arg \in 1..taskId
              /\ RemoveEffect(o.arg, calls')
              /\ position' = position + 1
              /\ UNCHANGED <<taskId, cleared, clearedIds, thrown>>
         [] o.op = "clear" ->
              \* clear() empties the queue and makes the loop break
              /\ taskQueue' = <<>>
              /\ cleared' = TRUE
              /\ position' = PositionAfterClear(running, position)
              /\ clearedIds' = clearedIds \union TaskIds(taskQueue)
                      \union { running[i].id : i \in (position + 1)..Len(running) }
              /\ UNCHANGED <<taskId, running, removedIds, thrown>>
         [] o.op = "run" ->
              \* run() from a callback throws; the exception leaves run()
              /\ thrown' = TRUE
              /\ UNCHANGED <<taskQueue, taskId, running, cleared, position,
                             removedIds, clearedIds>>
    /\ UNCHANGED <<isRunning, taskRuns>>
    /\ UNCHANGED <<layoutVars, styleVars, packed, queueVars, worker, fetches, sprite, globe>>

\* run() after its loop
RunEnd ==
    /\ isRunning /\ ~thrown
    /\ position > Len(running)
    /\ cleared' = FALSE
    /\ isRunning' = FALSE
    /\ UNCHANGED <<taskQueue, taskId, running, position, taskRuns, calls,
                   removedIds, clearedIds, thrown>>
    /\ UNCHANGED <<layoutVars, styleVars, packed, queueVars, worker, fetches, sprite, globe>>

(* ------------------------------------------------------------------ *)
(* GeoJSONWorkerSource (source/geojson_worker_source)                 *)
(* ------------------------------------------------------------------ *)

\* new GeoJSONWorkerSource(actor, layerIndex, []): nothing pending, nothing
\* loading; results keeps what each request's callback was called with
WorkerIdle ==
    worker = [state |-> "Idle", pending |-> 0, loading |-> 0, sent |-> 0,
              uncoalesced |-> FALSE, removed |-> FALSE,
              results |-> [r \in 1..MaxLoads |-> <<>>]]

\* a pending request that is dropped without its callback being called
Abandon_Silent(w) == w

\* this._pendingCallback(null, {abandoned: true}) if a request is pending
Abandon(w) ==
    IF w.pending # 0
    THEN [w EXCEPT !.results[w.pending] = Append(@, "abandoned")]
    ELSE w

\* _loadData(): the pending request, if any, becomes the running load
StartLoad(w) ==
    IF w.pending = 0 THEN w
    ELSE [w EXCEPT !.loading = w.pending, !.pending = 0]

\* loadData(params, callback): the request replaces the pending one and is
\* loaded at once unless a load or its coalesce() is outstanding
LoadData ==
    /\ ~worker.removed
    /\ worker.sent < MaxLoads
    /\ LET r == worker.sent + 1
           w == [Abandon(worker) EXCEPT !.pending = r, !.sent = r]
       IN worker' = IF w.state # "Idle"
                    THEN [w EXCEPT !.state = "NeedsLoadData"]
                    ELSE StartLoad([w EXCEPT !.state = "Coalescing"])
    /\ UNCHANGED <<layoutVars, styleVars, packed, queueVars, taskVars, fetches, sprite, globe>>

\* loadGeoJSON calls back: the callback of the running load gets its result,
\* and the foreground will answer it with coalesce()
FinishLoad ==
    /\ worker.loading # 0
    /\ worker' = [worker EXCEPT !.results[worker.loading] = Append(@, "loaded"),
                                !.loading = 0,
                                !.uncoalesced = ~worker.removed]
    /\ UNCHANGED <<layoutVars, styleVars, packed, queueVars, taskVars, fetches, sprite, globe>>

\* coalesce(): with a request pending it is loaded now, otherwise the
\* worker is idle again
Coalesce ==
    /\ ~worker.removed
    /\ worker.uncoalesced
    /\ worker' = CASE worker.state = "Coalescing" ->
                        [worker EXCEPT !.state = "Idle", !.uncoalesced = FALSE]
                   [] worker.state = "NeedsLoadData" ->
                        StartLoad([worker EXCEPT !.state = "Coalescing",
                                                 !.uncoalesced = FALSE])
                   [] OTHER -> [worker EXCEPT !.uncoalesced = FALSE]
    /\ UNCHANGED <<layoutVars, styleVars, packed, queueVars, taskVars, fetches, sprite, globe>>

\* removeSource(params, callback): the pending callback is not leaked; no
\* message reaches the worker source afterwards
RemoveSource ==
    /\ ~worker.removed
    /\ worker.sent > 0
    /\ worker' = [Abandon(worker) EXCEPT !.pending = 0, !.removed = TRUE]
    /\ UNCHANGED <<layoutVars, styleVars, packed, queueVars, taskVars, fetches, sprite, globe>>

(* ------------------------------------------------------------------ *)
(* makeFetchRequest (util/ajax)                                       *)
(* ------------------------------------------------------------------ *)

\* a request not made yet: stage is where its promise chain stands, body
\* tells whether the response has a body stream, calls is what the callback
\* was called with
NoFetch == [stage |-> "none", aborted |-> FALSE, complete |-> FALSE,
            body |-> "none", calls |-> <<>>]

FetchIdle == fetches = [r \in 1..MaxFetches |-> NoFetch]

\* controller.abort() was called: fetch() rejects with an AbortError and a
\* body stream that is still read is errored with it; a response without a
\* body has nothing to error
SignalAborted(f) == f.aborted /\ ~f.complete

\* response.blob().then(body => callback(new AJAXError(...)))
ErrorResponseCalls(f) == Append(f.calls, "AJAXError")

\* makeFetchRequest(requestParameters, callback): validateOrFetch(null, null)
\* calls fetch(request)
MakeFetchRequest(r) ==
    /\ fetches[r].stage = "none"
    /\ \A q \in 1..(r - 1) : fetches[q].stage # "none"
    /\ fetches' = [fetches EXCEPT ![r].stage = "fetch"]
    /\ UNCHANGED <<layoutVars, styleVars, packed, queueVars, taskVars, worker, sprite, globe>>

\* fetch(request) is fulfilled with a response: an ok response goes to
\* finishRequest, which reads its body; otherwise its blob is read
FetchResolves(r, ok, body) ==
    /\ fetches[r].stage = "fetch"
    /\ ~SignalAborted(fetches[r])
    /\ fetches' = [fetches EXCEPT ![r].stage = IF ok THEN "body" ELSE "blob",
                                  ![r].body = body]
    /\ UNCHANGED <<layoutVars, styleVars, packed, queueVars, taskVars, worker, sprite, globe>>

\* fetch(request) is rejected: an AbortError (code 20) is silenced, another
\* error is handed to the callback
FetchRejects(r) ==
    /\ fetches[r].stage = "fetch"
    /\ fetches' = [fetches EXCEPT
           ![r].stage = "done",
           ![r].calls = IF SignalAborted(fetches[r]) THEN @ ELSE Append(@, "Error")]
    /\ UNCHANGED <<layoutVars, styleVars, packed, queueVars, taskVars, worker, sprite, globe>>

\* the body has been read: the then() of finishRequest or of the blob
BodyResolves(r) ==
    /\ fetches[r].stage \in {"body", "blob"}
    /\ ~(SignalAborted(fetches[r]) /\ fetches[r].body = "stream")
    /\ fetches' = [fetches EXCEPT
           ![r].stage = "done",
           ![r].complete = IF fetches[r].stage = "body" /\ ~fetches[r].aborted
                           THEN TRUE ELSE @,
           ![r].calls = IF fetches[r].stage = "body"
                        THEN (IF fetches[r].aborted THEN @ ELSE Append(@, "result"))
                        ELSE ErrorResponseCalls(fetches[r])]
    /\ UNCHANGED <<layoutVars, styleVars, packed, queueVars, taskVars, worker, sprite, globe>>

\* reading the body fails, with the AbortError of a cancelled request or,
\* before that, with an error of the stream or of the parser: the catch() of
\* finishRequest, or the catch() after fetch() for the blob
BodyRejects(r) ==
    /\ fetches[r].stage \in {"body", "blob"}
    /\ fetches[r].body = "stream" \/ fetches[r].stage = "body"
    /\ fetches[r].aborted => fetches[r].body = "stream"
    /\ fetches' = [fetches EXCEPT
           ![r].stage = "done",
           ![r].calls = IF fetches[r].aborted THEN @ ELSE Append(@, "Error")]
    /\ UNCHANGED <<layoutVars, styleVars, packed, queueVars, taskVars, worker, sprite, globe>>

\* cancel() of the Cancelable: aborted = true; if (!complete) controller.abort()
CancelFetch(r) ==
    /\ fetches[r].stage # "none"
    /\ ~fetches[r].aborted
    /\ fetches' = [fetches EXCEPT ![r].aborted = TRUE]
    /\ UNCHANGED <<layoutVars, styleVars, packed, queueVars, taskVars, worker, sprite, globe>>

(* ------------------------------------------------------------------ *)
(* The layout pass                                                    *)
(* ------------------------------------------------------------------ *)

NoCompareText == [t \in {} |-> <<>>]

\* a bucket before its first layout pass
NewBucket ==
    [symbolInstances |-> <<>>, collisionBoxArray |-> <<>>,
     text |-> <<>>, icon |-> <<>>, compareText |-> NoCompareText]

\* bucket.createArrays()
createArrays(b) ==
    [b EXCEPT !.symbolInstances = <<>>, !.collisionBoxArray = <<>>,
              !.text = <<>>, !.icon = <<>>]

\* a pass that keeps the compareText of the pass before
ResetCompareText_Keep(b) == b

\* args.bucket.compareText = {}
ResetCompareText(b) == [b EXCEPT !.compareText = NoCompareText]

NoShaped == [orientations |-> [horizontal |-> <<>>, vertical |-> NoShaping],
             icon |-> FALSE, verticalIcon |-> FALSE]

\* what the feature loop knows of a feature before it calls addFeature
ShapeFeature(lay, f) ==
    LET orientations == ShapeTextOrientations(lay, f)
        icon == ShapeIcon(f)
    IN [orientations |-> orientations, icon |-> icon,
        verticalIcon |-> VerticallyShapedIcon(lay, orientations, icon)]

\* a feature loop that calls addFeature for every feature
HasShapedTextOrIcon_Always(sh) == TRUE

\* shapedText || shapedIcon
HasShapedTextOrIcon(sh) ==
    \/ Truthy(getDefaultHorizontalShaping(sh.orientations.horizontal))
    \/ Truthy(sh.orientations.vertical)
    \/ sh.icon

(* ------------------------------------------------------------------ *)
(* The features a bucket may hold                                     *)
(* ------------------------------------------------------------------ *)

GeometrySize(geometry) == SeqSum([i \in 1..Len(geometry) |-> Len(geometry[i])])

\* geometries of at most n points: no line, or a line of k points followed by
\* a geometry of at most n - k points
RECURSIVE GeometriesUpTo(_)
GeometriesUpTo(n) ==
    {<<>>} \cup UNION { { <<line>> \o rest : line \in [1..k -> TilePoints],
                                             rest \in GeometriesUpTo(n - k) } : k \in 1..n }

\* geometries of at least one and at most n points, in one or more lines
Geometries(n) == GeometriesUpTo(n) \ {<<>>}

\* text, the number of lines its shaping has (0: nothing renderable), icon
FeatureKinds ==
    { k \in [text : {"", "Hello", "Kanji", "VerticalOnly"}, lines : 0..2,
              icon : {"", "missing", "marker"}] :
        /\ (k.text = "") => (k.lines = 0)
        /\ (k.text \in {"Kanji", "VerticalOnly"}) => (k.lines = 1) }

FeatureTypes == {"Point", "LineString", "Polygon"}

\* the geometry types of the features: the anchor dispatch reads the type
\* when the placement is neither line nor line-center; the layers placed
\* along lines hold lines and polygon outlines
LayoutTypes(lay) ==
    IF lay.symbolPlacement = "point" THEN FeatureTypes ELSE {"LineString", "Polygon"}

NoFeature ==
    [type |-> "none", text |-> "", lines |-> 0, icon |-> "", geometry |-> <<>>, index |-> -1]

\* the next feature of the bucket: its index is its place in bucket.features
FeatureSet(lay, index, maxPoints) ==
    { [type |-> t, text |-> k.text, lines |-> k.lines, icon |-> k.icon,
       geometry |-> g, index |-> index] :
          t \in LayoutTypes(lay), k \in FeatureKinds, g \in Geometries(maxPoints) }

\* the layouts: a property varies where the layout pass reads it
Layouts ==
    { l \in [symbolPlacement : {"point", "line", "line-center"},
             textRotationAlignment : {"auto"},
             keepUpright : {TRUE},
             allowVerticalPlacement : BOOLEAN,
             textJustify : {"center", "auto"},
             textAnchor : {"center"},
             variableAnchor : { <<>>, <<"left", "top-right">> },
             iconTextFit : {"none", "both"},
             symbolSpacing : {1, 2},
             textSize : {12, 36},
             overscaling : {1}] :
        /\ l.symbolPlacement # "line" => l.symbolSpacing = 1
        /\ l.symbolPlacement = "point" => l.textSize = 12
        /\ l.symbolPlacement # "point" =>
               ~l.allowVerticalPlacement /\ l.variableAnchor = <<>>
                   /\ l.textJustify = "center"
        /\ ~l.allowVerticalPlacement => l.iconTextFit = "none" }

(* ------------------------------------------------------------------ *)
(* loadSprite (style/load_sprite)                                     *)
(* ------------------------------------------------------------------ *)

\* loadSprite has not been called: n is spriteArray.length, jsonsMap and
\* imagesMap hold the ids that arrived, pending the requests without an
\* answer, calls what the callback was called with
SpriteIdle ==
    sprite = [n |-> 0, jsonsMap |-> {}, imagesMap |-> {}, pending |-> {},
              calls |-> <<>>]

\* the requests of a sprite array of n sprites: a JSON and an image each
SpriteRequests(n) == {"json", "image"} \X (1..n)

\* maybeComplete / doOnceCompleted: the callback gets the result when as
\* many JSON files and as many images have arrived as there are sprites
maybeComplete(n, jsonsMap, imagesMap, called) ==
    IF n = Cardinality(jsonsMap) /\ Cardinality(jsonsMap) = Cardinality(imagesMap)
    THEN Append(called, "result")
    ELSE called

\* loadSprite(originalSprite, requestManager, pixelRatio, callback): two
\* requests are made for every sprite
LoadSprite(n) ==
    /\ sprite.n = 0
    /\ sprite' = [sprite EXCEPT !.n = n, !.pending = SpriteRequests(n)]
    /\ UNCHANGED <<layoutVars, styleVars, packed, queueVars, taskVars, worker, fetches, globe>>

\* the JSON request of a sprite is answered: with an error the callback
\* gets it, otherwise the data is kept and maybeComplete looks on
JsonArrives(id, err) ==
    /\ <<"json", id>> \in sprite.pending
    /\ sprite' = IF err
                 THEN [sprite EXCEPT !.pending = @ \ {<<"json", id>>},
                                     !.calls = Append(@, "error")]
                 ELSE [sprite EXCEPT !.pending = @ \ {<<"json", id>>},
                                     !.jsonsMap = @ \cup {id},
                                     !.calls = maybeComplete(sprite.n, sprite.jsonsMap \cup {id},
                                                             sprite.imagesMap, @)]
    /\ UNCHANGED <<layoutVars, styleVars, packed, queueVars, taskVars, worker, fetches, globe>>

\* the image request of a sprite is answered
ImageArrives(id, err) ==
    /\ <<"image", id>> \in sprite.pending
    /\ sprite' = IF err
                 THEN [sprite EXCEPT !.pending = @ \ {<<"image", id>>},
                                     !.calls = Append(@, "error")]
                 ELSE [sprite EXCEPT !.pending = @ \ {<<"image", id>>},
                                     !.imagesMap = @ \cup {id},
                                     !.calls = maybeComplete(sprite.n, sprite.jsonsMap,
                                                             sprite.imagesMap \cup {id}, @)]
    /\ UNCHANGED <<layoutVars, styleVars, packed, queueVars, taskVars, worker, fetches, globe>>

(* ------------------------------------------------------------------ *)
(* GlobeTransform (geo/projection/globe_transform)                    *)
(* ------------------------------------------------------------------ *)

\* what newFrameUpdate returns when nothing is forced
NoUpdate == [forcePlacementUpdate |-> FALSE, forceSourceUpdate |-> FALSE,
             fireProjectionEvent |-> "none"]

\* new GlobeTransform(projection) at time 0: times are clock ticks, the
\* globeness is kept in units of 1 / TransitionTicks^3, globeState tells
\* whether zoom < globeConstants.maxGlobeZoom, result is what the last
\* newFrameUpdate returned
GlobeIdle ==
    globe = [now |-> 0,
             globeState |-> TRUE,
             _lastGlobeStateEnabled |-> TRUE,
             _lastUpdateTimeSeconds |-> 0,
             _lastGlobeChangeTimeSeconds |-> 0 - 10 * TransitionTicks,
             _skipNextAnimation |-> TRUE,
             _globeness |-> TransitionTicks * TransitionTicks * TransitionTicks,
             frames |-> 0,
             result |-> NoUpdate]

\* easeCubicInOut(k / TransitionTicks) in units of 1 / TransitionTicks^3:
\* 4t^3 below a half, 1 - 4(1 - t)^3 from there on
easeCubicInOut(k) ==
    IF 2 * k < TransitionTicks
    THEN 4 * k * k * k
    ELSE TransitionTicks * TransitionTicks * TransitionTicks
             - 4 * (TransitionTicks - k) * (TransitionTicks - k) * (TransitionTicks - k)

\* Math.min(Math.max(x, 0.0), 1.0) in ticks
ClampTransition(ticks) ==
    IF ticks < 0 THEN 0 ELSE IF ticks > TransitionTicks THEN TransitionTicks ELSE ticks

\* get isGlobeRendering(): this._globeness > 0
isGlobeRendering(g) == g._globeness > 0

\* _computeGlobenessAnimation() at time now: the transform with its
\* transition fields updated and the new globeness assigned
computeGlobenessAnimation(g, currentTimeSeconds) ==
    LET changed == g.globeState # g._lastGlobeStateEnabled
        change == IF changed THEN currentTimeSeconds ELSE g._lastGlobeChangeTimeSeconds
        globeTransition == ClampTransition(currentTimeSeconds - change)
        animated == IF g.globeState THEN globeTransition
                    ELSE TransitionTicks - globeTransition
        newGlobeness == IF g._skipNextAnimation
                        THEN (IF g.globeState THEN TransitionTicks ELSE 0)
                        ELSE animated
    IN [g EXCEPT !._lastGlobeStateEnabled = g.globeState,
                 !._lastGlobeChangeTimeSeconds =
                     IF g._skipNextAnimation
                     THEN currentTimeSeconds - TransitionTicks * 2
                     ELSE change,
                 !._skipNextAnimation = FALSE,
                 !._globeness = easeCubicInOut(newGlobeness)]

\* a comparison of the globeness itself
ProjectionChanged_Globeness(old, new) == old._globeness # new._globeness

\* oldGlobeRendering !== this.isGlobeRendering
ProjectionChanged(old, new) == isGlobeRendering(old) # isGlobeRendering(new)

\* newFrameUpdate()
NewFrameUpdate ==
    /\ globe.frames < MaxTime
    /\ LET g == computeGlobenessAnimation(
                    [globe EXCEPT !._lastUpdateTimeSeconds = globe.now], globe.now)
       IN globe' = [g EXCEPT
              !.frames = @ + 1,
              !.result =
                  IF ~ProjectionChanged(globe, g)
                  THEN NoUpdate
                  ELSE [forcePlacementUpdate |-> TRUE,
                        forceSourceUpdate |-> TRUE,
                        fireProjectionEvent |->
                            IF isGlobeRendering(g) THEN "globe" ELSE "globe-mercator"]]
    /\ UNCHANGED <<layoutVars, styleVars, packed, queueVars, taskVars, worker, fetches, sprite>>

\* setZoom(zoom) from the map: the zoom is below globeConstants.maxGlobeZoom
\* or it is not
SetZoom(below) ==
    /\ globe.globeState # below
    /\ globe' = [globe EXCEPT !.globeState = below]
    /\ UNCHANGED <<layoutVars, styleVars, packed, queueVars, taskVars, worker, fetches, sprite>>

\* browser.now() moves on
Tick ==
    /\ globe.now < MaxTime
    /\ globe' = [globe EXCEPT !.now = @ + 1]
    /\ UNCHANGED <<layoutVars, styleVars, packed, queueVars, taskVars, worker, fetches, sprite>>

(* ------------------------------------------------------------------ *)
(* The layout pass                                                    *)
(* ------------------------------------------------------------------ *)

\* performSymbolLayout up to its feature loop
PerformSymbolLayoutBegin ==
    /\ pc \in {"idle", "done"}
    /\ run < MaxRuns
    /\ bucket' = ResetCompareText(createArrays(bucket))
    /\ fresh' = NewBucket
    /\ pc' = "features"
    /\ run' = run + 1
    /\ feature' = NoFeature
    /\ shaped' = NoShaped
    /\ anchors' = <<>>
    /\ nFeatures' = 0
    /\ nPoints' = 0
    /\ UNCHANGED layout
    /\ UNCHANGED nonLayoutVars

\* the loop takes the next feature f of the bucket
TakeFeature(f) ==
    /\ feature' = f
    /\ shaped' = ShapeFeature(layout, f)
    /\ nFeatures' = nFeatures + 1
    /\ nPoints' = nPoints + GeometrySize(f.geometry)

\* a feature with neither shaped text nor shaped icon: addFeature is not called
SkipFeature ==
    /\ pc = "features"
    /\ nFeatures < MaxFeatures
    /\ \E f \in FeatureSet(layout, nFeatures, MaxPoints - nPoints) :
          /\ ~HasShapedTextOrIcon(ShapeFeature(layout, f))
          /\ TakeFeature(f)
    /\ UNCHANGED <<layout, bucket, fresh, pc, anchors, run>>
    /\ UNCHANGED nonLayoutVars

\* addFeature up to its anchor loop
AddFeature ==
    /\ pc = "features"
    /\ nFeatures < MaxFeatures
    /\ \E f \in FeatureSet(layout, nFeatures, MaxPoints - nPoints) :
          /\ HasShapedTextOrIcon(ShapeFeature(layout, f))
          /\ TakeFeature(f)
          /\ anchors' = FeatureAnchors(layout, f)
          /\ pc' = IF FeatureAnchors(layout, f) = <<>> THEN "features" ELSE "anchors"
    /\ UNCHANGED <<layout, bucket, fresh, run>>
    /\ UNCHANGED nonLayoutVars

\* one anchor of the current feature; after the last one the feature loop goes on
AddSymbolAtAnchor ==
    /\ pc = "anchors"
    /\ anchors # <<>>
    /\ bucket' = VisitAnchor(bucket, Head(anchors), shaped, layout, feature.index)
    /\ fresh' = VisitAnchor(fresh, Head(anchors), shaped, layout, feature.index)
    /\ anchors' = Tail(anchors)
    /\ pc' = IF Tail(anchors) = <<>> THEN "features" ELSE "anchors"
    /\ UNCHANGED <<layout, feature, shaped, nFeatures, nPoints, run>>
    /\ UNCHANGED nonLayoutVars

\* the feature loop is over: performSymbolLayout returns
PerformSymbolLayoutEnd ==
    /\ pc = "features"
    /\ pc' = "done"
    /\ UNCHANGED <<layout, bucket, fresh, feature, shaped, anchors, nFeatures, nPoints, run>>
    /\ UNCHANGED nonLayoutVars

Init ==
    /\ layout \in Layouts
    /\ bucket = NewBucket
    /\ fresh = NewBucket
    /\ pc = "idle"
    /\ feature = NoFeature
    /\ shaped = NoShaped
    /\ anchors = <<>>
    /\ nFeatures = 0
    /\ nPoints = 0
    /\ run = 0
    /\ StyleIdle
    /\ PackedIdle
    /\ QueueIdle
    /\ TaskIdle
    /\ WorkerIdle
    /\ FetchIdle
    /\ SpriteIdle
    /\ GlobeIdle

Next ==
    \/ PerformSymbolLayoutBegin
    \/ SkipFeature
    \/ AddFeature
    \/ AddSymbolAtAnchor
    \/ PerformSymbolLayoutEnd

Spec == Init /\ [][Next]_vars

(* ------------------------------------------------------------------ *)
(* The text layout properties of one feature                          *)
(* ------------------------------------------------------------------ *)

\* the bucket's layout pass is not running
LayoutIdle ==
    /\ layout = [symbolPlacement |-> "point", textRotationAlignment |-> "auto",
                 keepUpright |-> TRUE, allowVerticalPlacement |-> FALSE,
                 textJustify |-> "center", textAnchor |-> "center",
                 variableAnchor |-> <<>>, iconTextFit |-> "none",
                 symbolSpacing |-> 1, textSize |-> 12, overscaling |-> 1]
    /\ bucket = NewBucket
    /\ fresh = NewBucket
    /\ pc = "idle"
    /\ feature = NoFeature
    /\ shaped = NoShaped
    /\ anchors = <<>>
    /\ nFeatures = 0
    /\ nPoints = 0
    /\ run = 0

\* textOffset = [0, 0]
ZeroTextOffset == [kind |-> "vector", anchor |-> "none", x |-> 0, y |-> 0]

\* evaluateVariableOffset(anchor, offset): with INVALID_TEXT_OFFSET as second
\* component the vector is computed from the anchor and the radius offset[1],
\* and is kept here as that pair
evaluateVariableOffset(anchor, offset) ==
    IF offset[2] = INVALID_TEXT_OFFSET
    THEN [kind |-> "radial", anchor |-> anchor, x |-> offset[1], y |-> 0]
    ELSE [kind |-> "vector", anchor |-> anchor, x |-> offset[1], y |-> offset[2]]

\* the text-offset values a style gives
TextOffsets == {<<0, 0>>, <<1, -2>>}

\* the text-variable-anchor lists
VariableAnchorLists == UNION { [1..n -> TextAnchors] : n \in 0..MaxVariableAnchors }

\* the evaluated layout properties of a feature and its text; the text has
\* one or two lines when shaped
Styles ==
    [given : {TRUE},
     symbolPlacement : {"point", "line"},
     textRotationAlignment : {"auto"},
     keepUpright : {TRUE},
     allowVerticalPlacement : {FALSE},
     textJustify : {"auto", "left", "center", "right"},
     textAnchor : TextAnchors,
     variableAnchor : VariableAnchorLists,
     radialOffset : {0, 2},
     textOffset : TextOffsets,
     text : {"", "Hello"},
     lines : {1, 2}]

\* getTextVariableAnchorOffset(layer, feature): null without variable anchors
HasVariableAnchorOffset(st) == st.variableAnchor # <<>>

\* a layout-time textOffset that prefers a text-offset that is set
LayoutTextOffset_OffsetFirst(st) ==
    IF st.text = "" THEN ZeroTextOffset
    ELSE IF HasVariableAnchorOffset(st) THEN ZeroTextOffset
    ELSE IF st.radialOffset # 0 /\ st.textOffset = <<0, 0>>
    THEN evaluateVariableOffset(st.textAnchor,
                                <<st.radialOffset * ONE_EM, INVALID_TEXT_OFFSET>>)
    ELSE [kind |-> "vector", anchor |-> "none",
          x |-> st.textOffset[1] * ONE_EM, y |-> st.textOffset[2] * ONE_EM]

\* the layout-time textOffset of performSymbolLayout
LayoutTextOffset(st) ==
    IF st.text = "" THEN ZeroTextOffset
    ELSE IF HasVariableAnchorOffset(st) THEN ZeroTextOffset
    ELSE IF st.radialOffset # 0
    THEN evaluateVariableOffset(st.textAnchor,
                                <<st.radialOffset * ONE_EM, INVALID_TEXT_OFFSET>>)
    ELSE [kind |-> "vector", anchor |-> "none",
          x |-> st.textOffset[1] * ONE_EM, y |-> st.textOffset[2] * ONE_EM]

\* the body of the feature loop up to the shapings, for one feature
ResolveTextLayout ==
    /\ style.given
    /\ ~resolved.done
    /\ resolved' = [done |-> TRUE,
                    textOffset |-> LayoutTextOffset(style),
                    horizontal |-> ShapeTextOrientations(style, style).horizontal]
    /\ UNCHANGED <<style, layoutVars, packed, queueVars, taskVars, worker, fetches, sprite, globe>>

InitTextLayout ==
    /\ style \in Styles
    /\ resolved = NoResolved
    /\ LayoutIdle
    /\ PackedIdle
    /\ QueueIdle
    /\ TaskIdle
    /\ WorkerIdle
    /\ FetchIdle
    /\ SpriteIdle
    /\ GlobeIdle

NextTextLayout == ResolveTextLayout

SpecTextLayout == InitTextLayout /\ [][NextTextLayout]_vars

(* ------------------------------------------------------------------ *)
(* The capacity guards of addTextVertices and addSymbol               *)
(* ------------------------------------------------------------------ *)

\* the kinds of bucket.textSizeData and bucket.iconSizeData
SizeKinds == {"constant", "source", "composite"}

\* the sizes a feature evaluates to: small, the largest that packs, and the
\* smallest that does not
SizeValues == {16, 511, 512}

\* a packed size that stops at the largest packed value
PackedSize_Clamped(size) ==
    IF SIZE_PACK_FACTOR * size > MAX_PACKED_SIZE
    THEN MAX_PACKED_SIZE ELSE SIZE_PACK_FACTOR * size

\* SIZE_PACK_FACTOR * size
PackedSize(size) == SIZE_PACK_FACTOR * size

\* textSizeData or iconSizeData: null (<<>>) for a constant or camera size,
\* one packed size for a source size, two for a composite size
SizeData(kind, size, compositeSizes) ==
    CASE kind = "source" -> <<PackedSize(size)>>
      [] kind = "composite" ->
            <<PackedSize(compositeSizes[1]), PackedSize(compositeSizes[2])>>
      [] OTHER -> <<>>

\* the test before warnOnce: some packed size is above MAX_PACKED_SIZE
SizeOverflows(sizeData) == \E i \in 1..Len(sizeData) : sizeData[i] > MAX_PACKED_SIZE

\* warnOnce(message): the message is logged, nothing is thrown
warnOnce(warnings, condition, message) ==
    IF condition THEN warnings \union {message} ELSE warnings

\* what a symbol brings: its text and icon, their quads and the sizes its
\* feature evaluates to
SymbolInputs ==
    { i \in [hasText : BOOLEAN, hasIcon : BOOLEAN, glyphQuads : {0, 2},
             textSize : SizeValues, iconSize : SizeValues,
             compositeSizes : {<<16, 16>>, <<16, 512>>, <<512, 16>>}] :
        /\ i.hasText \/ i.hasIcon
        /\ i.hasText <=> i.glyphQuads > 0 }

\* bucket.addSymbols as far as capacity goes: the size data is kept as
\* handed over and glyphOffsetArray grows by one entry per quad
addSymbolsPacked(p, arrays, quads, sizeData) ==
    [p EXCEPT !.glyphOffsetArrayLength = @ + quads,
              !.handed = Append(@, [arrays |-> arrays, sizeData |-> sizeData])]

\* addSymbol for one anchor as far as capacity goes: the icon with its size
\* guard, the text with its size guard (addTextVertices), the glyph count
\* guard, the emitted instance
addSymbolPacked(p, i) ==
    LET iconSizeData == SizeData(p.iconSizeKind, i.iconSize, i.compositeSizes)
        p1 == IF i.hasIcon
              THEN addSymbolsPacked(
                       [p EXCEPT !.warnings =
                            warnOnce(@, SizeOverflows(iconSizeData), "icon-size")],
                       "icon", IconQuads, iconSizeData)
              ELSE p
        textSizeData == SizeData(p.textSizeKind, i.textSize, i.compositeSizes)
        p2 == IF i.hasText
              THEN addSymbolsPacked(
                       [p1 EXCEPT !.warnings =
                            warnOnce(@, SizeOverflows(textSizeData), "text-size")],
                       "text", i.glyphQuads, textSizeData)
              ELSE p1
    IN [p2 EXCEPT !.warnings =
                      warnOnce(@, p2.glyphOffsetArrayLength >= MAX_GLYPHS,
                               "Too many glyphs"),
                  !.symbolInstances = @ + 1,
                  !.remaining = @ - 1]

\* the next symbol of the remaining features is added
AddSymbolPacked ==
    /\ packed.on
    /\ packed.remaining > 0
    /\ \E i \in SymbolInputs :
          packed' = addSymbolPacked([packed EXCEPT !.handed = <<>>], i)
    /\ UNCHANGED <<layoutVars, styleVars, queueVars, taskVars, worker, fetches, sprite, globe>>

\* a bucket with room or two glyphs below or at the ceiling, and symbols to add
InitPacked ==
    /\ packed \in [on : {TRUE},
                   textSizeKind : SizeKinds,
                   iconSizeKind : SizeKinds,
                   glyphOffsetArrayLength : {0, MAX_GLYPHS - 2, MAX_GLYPHS},
                   handed : {<<>>},
                   warnings : {{}},
                   symbolInstances : {0},
                   remaining : {MaxSymbols}]
    /\ LayoutIdle
    /\ StyleIdle
    /\ QueueIdle
    /\ TaskIdle
    /\ WorkerIdle
    /\ FetchIdle
    /\ SpriteIdle
    /\ GlobeIdle

NextPacked == AddSymbolPacked

SpecPacked == InitPacked /\ [][NextPacked]_vars

\* the image queue on its own
InitImageQueue ==
    /\ QueueIdle
    /\ LayoutIdle
    /\ StyleIdle
    /\ PackedIdle
    /\ TaskIdle
    /\ WorkerIdle
    /\ FetchIdle
    /\ SpriteIdle
    /\ GlobeIdle

NextImageQueue ==
    \/ GetImage
    \/ \E r \in 1..MaxRequests : CancelQueued(r)
    \/ \E r \in 1..MaxRequests : CancelRequested(r)
    \/ \E r \in 1..MaxRequests : CompleteRequest(r)
    \/ \E m \in {0, MAX_PARALLEL_IMAGE_REQUESTS} : ProcessImageRequestQueue(m)
    \/ \E cb \in Callbacks : InstallImageQueueThrottleControlCallback(cb)
    \/ \E h \in 0..(MaxCallbacks - 1) : RemoveImageQueueThrottleControlCallback(h)
    \/ \E cb \in Callbacks : SetMoving(cb)

SpecImageQueue == InitImageQueue /\ [][NextImageQueue]_vars

\* the image request queue with no throttle callback installed and nobody
\* calling processImageRequestQueue from outside; getArrayBuffer calls back
\* for every request it was given
NextImageQueueLive ==
    \/ GetImage
    \/ \E r \in 1..MaxRequests : CancelQueued(r)
    \/ \E r \in 1..MaxRequests : CancelRequested(r)
    \/ \E r \in 1..MaxRequests : CompleteRequest(r)

SpecImageQueueLive ==
    /\ InitImageQueue
    /\ [][NextImageQueueLive]_vars
    /\ \A r \in 1..MaxRequests : WF_vars(CompleteRequest(r))

\* a TaskQueue on its own
InitTaskQueue ==
    /\ TaskIdle
    /\ LayoutIdle
    /\ StyleIdle
    /\ PackedIdle
    /\ QueueIdle
    /\ WorkerIdle
    /\ FetchIdle
    /\ SpriteIdle
    /\ GlobeIdle

NextTaskQueue ==
    \/ \E cb \in TaskCallbacks : Add(cb)
    \/ \E id \in 1..MaxTasks : Remove(id)
    \/ Clear
    \/ RunBegin
    \/ SkipTask
    \/ \E o \in CallbackOps : CallTask(o)
    \/ RunEnd

SpecTaskQueue == InitTaskQueue /\ [][NextTaskQueue]_vars

\* a GeoJSONWorkerSource on its own
InitWorker ==
    /\ WorkerIdle
    /\ LayoutIdle
    /\ StyleIdle
    /\ PackedIdle
    /\ QueueIdle
    /\ TaskIdle
    /\ FetchIdle
    /\ SpriteIdle
    /\ GlobeIdle

NextWorker == LoadData \/ FinishLoad \/ Coalesce \/ RemoveSource

SpecWorker == InitWorker /\ [][NextWorker]_vars

\* requests made with makeFetchRequest on their own
InitFetch ==
    /\ FetchIdle
    /\ SpriteIdle
    /\ GlobeIdle
    /\ LayoutIdle
    /\ StyleIdle
    /\ PackedIdle
    /\ QueueIdle
    /\ TaskIdle
    /\ WorkerIdle

NextFetch ==
    \E r \in 1..MaxFetches :
        \/ MakeFetchRequest(r)
        \/ \E ok \in BOOLEAN, body \in {"stream", "null"} : FetchResolves(r, ok, body)
        \/ FetchRejects(r)
        \/ BodyResolves(r)
        \/ BodyRejects(r)
        \/ CancelFetch(r)

SpecFetch == InitFetch /\ [][NextFetch]_vars

\* one call of loadSprite on its own
InitSprite ==
    /\ SpriteIdle
    /\ GlobeIdle
    /\ LayoutIdle
    /\ StyleIdle
    /\ PackedIdle
    /\ QueueIdle
    /\ TaskIdle
    /\ WorkerIdle
    /\ FetchIdle

NextSprite ==
    \/ \E n \in 1..MaxSprites : LoadSprite(n)
    \/ \E id \in 1..MaxSprites, err \in BOOLEAN : JsonArrives(id, err)
    \/ \E id \in 1..MaxSprites, err \in BOOLEAN : ImageArrives(id, err)

SpecSprite == InitSprite /\ [][NextSprite]_vars

\* a GlobeTransform on its own
InitGlobe ==
    /\ GlobeIdle
    /\ LayoutIdle
    /\ StyleIdle
    /\ PackedIdle
    /\ QueueIdle
    /\ TaskIdle
    /\ WorkerIdle
    /\ FetchIdle
    /\ SpriteIdle

NextGlobe == NewFrameUpdate \/ (\E below \in BOOLEAN : SetZoom(below)) \/ Tick

SpecGlobe == InitGlobe /\ [][NextGlobe]_vars

(* ------------------------------------------------------------------ *)
(* Properties                                                         *)
(* ------------------------------------------------------------------ *)

\* the arrays addSymbol writes
EmittedArrays(b) == <<b.symbolInstances, b.text, b.icon, b.collisionBoxArray>>

LastInstance(b) == b.symbolInstances[Len(b.symbolInstances)]

\* the step visits an anchor of the current feature
VisitsAnchor == pc = "anchors" /\ anchors # <<>> /\ anchors' = Tail(anchors)

AnchorOutsideTile(a) == a[1] < 0 \/ a[1] > EXTENT - 1 \/ a[2] < 0 \/ a[2] > EXTENT - 1

\* every row of bucket.symbolInstances has its anchor in [0, EXTENT) x [0, EXTENT)
InstancesInsideTile ==
    \A i \in 1..Len(bucket.symbolInstances) :
        ~AnchorOutsideTile(<<bucket.symbolInstances[i].anchorX,
                             bucket.symbolInstances[i].anchorY>>)

\* an anchor outside the tile leaves the emitted arrays alone; an anchor inside
\* it becomes the next symbol instance, unless line placement drops it as a repeat
AnchorStepRespectsTile ==
    VisitsAnchor =>
        LET a == Head(anchors) IN
        /\ AnchorOutsideTile(a) => EmittedArrays(bucket') = EmittedArrays(bucket)
        /\ ~AnchorOutsideTile(a) /\ layout.symbolPlacement # "line" =>
               /\ Len(bucket'.symbolInstances) = Len(bucket.symbolInstances) + 1
               /\ LastInstance(bucket').anchorX = a[1]
               /\ LastInstance(bucket').anchorY = a[2]

\* C1: in every placement mode and for every geometry type an anchor becomes
\* a symbol instance only if 0 <= x < EXTENT and 0 <= y < EXTENT; an anchor on
\* or beyond EXTENT, or with a negative coordinate, emits no symbol instance,
\* no placed symbol and no collision box, and all rows of
\* bucket.symbolInstances lie inside the tile.
C1_AnchorInsideTile == []InstancesInsideTile /\ [][AnchorStepRespectsTile]_vars

\* a point feature with an icon had a point on x = EXTENT or y = EXTENT and one
\* on x = EXTENT - 1: the only instance of the bucket is on x = EXTENT - 1
C1_Witness ==
    /\ pc = "features"
    /\ layout.symbolPlacement = "point"
    /\ feature.type = "Point"
    /\ feature.icon = "marker"
    /\ \E l \in 1..Len(feature.geometry) : \E p \in 1..Len(feature.geometry[l]) :
           EXTENT \in {feature.geometry[l][p][1], feature.geometry[l][p][2]}
    /\ Len(bucket.symbolInstances) = 1
    /\ bucket.symbolInstances[1].anchorX = EXTENT - 1

(* --- collision ranges --- *)

\* the four collision ranges of a symbol instance, as <<start, end>>
CollisionRanges(inst) ==
    [text |-> <<inst.textBoxStartIndex, inst.textBoxEndIndex>>,
     verticalText |-> <<inst.verticalTextBoxStartIndex, inst.verticalTextBoxEndIndex>>,
     icon |-> <<inst.iconBoxStartIndex, inst.iconBoxEndIndex>>,
     verticalIcon |-> <<inst.verticalIconBoxStartIndex, inst.verticalIconBoxEndIndex>>]

\* the kinds an instance has no collision feature for, read off what it placed
KindsWithoutCollisionFeature(inst) ==
    (IF inst.numHorizontalGlyphVertices = 0 THEN {"text"} ELSE {})
    \cup (IF inst.numVerticalGlyphVertices = 0 \/ ~layout.allowVerticalPlacement
          THEN {"verticalText"} ELSE {})
    \cup (IF inst.placedIconSymbolIndex = -1 THEN {"icon"} ELSE {})
    \cup (IF inst.verticalPlacedIconSymbolIndex = -1 THEN {"verticalIcon"} ELSE {})

\* C2: each of the four collision ranges of every symbol instance satisfies
\* 0 <= start <= end <= bucket.collisionBoxArray.length, and a kind without a
\* collision feature has start = end = the length the array has when the
\* instance is emitted (the array grows only when an instance is emitted, so
\* for the newest instance that is the current length).
C2_CollisionRangesValid ==
    /\ \A i \in 1..Len(bucket.symbolInstances) :
         \A k \in DOMAIN CollisionRanges(bucket.symbolInstances[i]) :
            LET r == CollisionRanges(bucket.symbolInstances[i])[k] IN
            0 <= r[1] /\ r[1] <= r[2] /\ r[2] <= Len(bucket.collisionBoxArray)
    /\ bucket.symbolInstances # <<>> =>
         \A k \in KindsWithoutCollisionFeature(LastInstance(bucket)) :
            LET r == CollisionRanges(LastInstance(bucket))[k] IN
            r[1] = Len(bucket.collisionBoxArray) /\ r[2] = Len(bucket.collisionBoxArray)

\* the second instance of a bucket has text boxes and no icon: its icon range
\* is the empty range at the end of an array that is not empty
C2_Witness ==
    /\ Len(bucket.symbolInstances) = 2
    /\ LastInstance(bucket).placedIconSymbolIndex = -1
    /\ LastInstance(bucket).textBoxStartIndex < LastInstance(bucket).textBoxEndIndex
    /\ LastInstance(bucket).iconBoxStartIndex = Len(bucket.collisionBoxArray)
    /\ LastInstance(bucket).iconBoxEndIndex = Len(bucket.collisionBoxArray)
    /\ bucket.symbolInstances[1].iconBoxStartIndex < bucket.symbolInstances[1].iconBoxEndIndex

(* --- repeat distance --- *)

\* dist(a, b) < textRepeatDistance, with textRepeatDistance half of
\* symbol-spacing in tile units (EXTENT / 512 units per pixel)
WithinRepeatDistance(a, b) ==
    LET spacing == (EXTENT \div (TileSizeBase * layout.overscaling)) * layout.symbolSpacing
    IN 4 * ((a[1] - b[1]) * (a[1] - b[1]) + (a[2] - b[2]) * (a[2] - b[2])) < spacing * spacing

\* C3: with symbol-placement line no two symbol instances of a pass whose
\* default horizontal shaping has the same text (the same key) lie closer
\* together than textRepeatDistance, whichever features they come from.
C3_RepeatDistance ==
    layout.symbolPlacement = "line" =>
        \A i, j \in 1..Len(bucket.symbolInstances) :
            LET a == bucket.symbolInstances[i]
                b == bucket.symbolInstances[j]
            IN i < j /\ a.key # "" /\ a.key = b.key =>
                   ~WithinRepeatDistance(<<a.anchorX, a.anchorY>>, <<b.anchorX, b.anchorY>>)

\* two features with the text "Hello" had one anchor each, 8 units apart with
\* a repeat distance of 16: the second feature emitted nothing
C3_Witness ==
    /\ pc = "features"
    /\ layout.symbolPlacement = "line"
    /\ layout.symbolSpacing = 2
    /\ nFeatures = 2
    /\ feature.text = "Hello" /\ feature.lines = 1
    /\ feature.geometry = << << <<0, 8>> >> >>
    /\ Len(bucket.symbolInstances) = 1
    /\ bucket.symbolInstances[1].key = "Hello"
    /\ bucket.symbolInstances[1].featureIndex = 0
    /\ bucket.symbolInstances[1].anchorX = 0 /\ bucket.symbolInstances[1].anchorY = 0

(* --- re-running the pass --- *)

VerticalShapingWanted ==
    layout.allowVerticalPlacement \/ (TextAlongLine(layout) /\ layout.keepUpright)

\* the text shaping of a feature is null, horizontal and vertical: no
\* text-field, or nothing renderable in the writing modes that are shaped
TextShapingFails(f) ==
    \/ f.text = ""
    \/ f.lines = 0
    \/ f.text = "VerticalOnly" /\ ~VerticalShapingWanted

\* the icon of a feature is not shaped: none named, or not in the image map
IconNotShaped(f) == f.icon \notin ImageMap

\* the step in which the feature loop takes its next feature
TakesFeature == pc = "features" /\ nFeatures' = nFeatures + 1

\* C5: a feature whose text shaping is null and whose icon is not shaped is
\* passed over: addFeature is not called (no anchor of it is visited) and
\* the symbol instances, placed symbols and collision boxes stay as they were.
C5_NothingEmitted ==
    [][TakesFeature /\ TextShapingFails(feature') /\ IconNotShaped(feature') =>
           /\ EmittedArrays(bucket') = EmittedArrays(bucket)
           /\ bucket' = bucket
           /\ pc' = "features"
           /\ anchors' = <<>>]_vars

\* the second feature has no renderable text and an icon the image map lacks:
\* the bucket holds the one instance of the first feature
C5_Witness ==
    /\ pc = "features"
    /\ nFeatures = 2
    /\ feature.text = "Hello" /\ feature.lines = 0 /\ feature.icon = "missing"
    /\ \A l \in 1..Len(feature.geometry) : \A p \in 1..Len(feature.geometry[l]) :
           ~AnchorOutsideTile(feature.geometry[l][p])
    /\ Len(bucket.symbolInstances) = 1
    /\ bucket.symbolInstances[1].featureIndex = 0
    /\ Len(bucket.collisionBoxArray) = 1

(* --- point features --- *)

\* the feature loop is done with the current feature
FeatureDone == pc \in {"features", "done"} /\ feature # NoFeature

\* the symbol instances emitted for the feature of the given index
InstancesOf(b, index) ==
    { i \in 1..Len(b.symbolInstances) : b.symbolInstances[i].featureIndex = index }

\* the points of a geometry that lie in [0, EXTENT) x [0, EXTENT)
PointsInsideTile(geometry) ==
    LET Inside(p) == ~AnchorOutsideTile(p) IN SelectSeq(Flatten(geometry), Inside)

\* a Point feature under point placement with something to place
PlacedPointFeature ==
    /\ FeatureDone
    /\ layout.symbolPlacement = "point"
    /\ feature.type = "Point"
    /\ ~(TextShapingFails(feature) /\ IconNotShaped(feature))

\* C6 as stated: a point feature with shaped text or a shaped icon has as many
\* symbol instances as point geometries.
C6_InstancePerPoint ==
    PlacedPointFeature =>
        Cardinality(InstancesOf(bucket, feature.index)) = GeometrySize(feature.geometry)

\* C6: a point feature with shaped text or a shaped icon has as many symbol
\* instances as it has point geometries inside the tile, that is with
\* 0 <= x < EXTENT and 0 <= y < EXTENT; points outside it emit nothing.
C6_InstancePerPointInsideTile ==
    PlacedPointFeature =>
        Cardinality(InstancesOf(bucket, feature.index))
            = Len(PointsInsideTile(feature.geometry))

\* a point feature of two points, one of them outside the tile, has emitted
\* one symbol instance
C6_Witness ==
    /\ PlacedPointFeature
    /\ GeometrySize(feature.geometry) = 2
    /\ Len(PointsInsideTile(feature.geometry)) = 1
    /\ Cardinality(InstancesOf(bucket, feature.index)) = 1

(* --- the entries of one symbol --- *)

\* the step emits a symbol instance
EmitsSymbol ==
    VisitsAnchor /\ Len(bucket'.symbolInstances) = Len(bucket.symbolInstances) + 1

\* the entries the step appends to an array
AppendedTo(old, new) == SubSeq(new, Len(old) + 1, Len(new))

AppendedIcons == AppendedTo(bucket.icon, bucket'.icon)

AppendedTexts == AppendedTo(bucket.text, bucket'.text)

AppendedHorizontalTexts ==
    LET Horizontal(e) == e.writingMode # "vertical" IN SelectSeq(AppendedTexts, Horizontal)

AppendedVerticalTexts ==
    LET Vertical(e) == e.writingMode = "vertical" IN SelectSeq(AppendedTexts, Vertical)

\* the icon entries of the emitted symbol sit at the indices its instance
\* stores: the icon first, the vertical icon after it
IconEntriesOfSymbol ==
    LET inst == LastInstance(bucket') IN
    /\ inst.placedIconSymbolIndex \in {-1, Len(bucket.icon)}
    /\ inst.verticalPlacedIconSymbolIndex \in {-1, Len(bucket.icon) + 1}
    /\ inst.placedIconSymbolIndex = -1 => inst.verticalPlacedIconSymbolIndex = -1
    /\ Len(AppendedIcons) = (IF inst.placedIconSymbolIndex = -1 THEN 0 ELSE 1)
                          + (IF inst.verticalPlacedIconSymbolIndex = -1 THEN 0 ELSE 1)
    /\ inst.placedIconSymbolIndex = -1 <=> ~shaped.icon
    /\ \A i \in 1..Len(AppendedIcons) :
          AppendedIcons[i].writingMode = (IF i = 1 THEN "none" ELSE "vertical")

\* C7: the icon entries of a symbol are in the icon array when its text
\* entries are written: every icon entry has associated index -1, every
\* horizontal text entry of the symbol stores the index of the symbol's icon
\* entry (-1 without icon) and its vertical text entry stores the index of the
\* vertical icon entry (-1 without one).
C7_IconBeforeText ==
    [][EmitsSymbol =>
           /\ IconEntriesOfSymbol
           /\ \A i \in 1..Len(AppendedIcons) : AppendedIcons[i].associatedIconIndex = -1
           /\ \A i \in 1..Len(AppendedHorizontalTexts) :
                 AppendedHorizontalTexts[i].associatedIconIndex
                     = LastInstance(bucket').placedIconSymbolIndex
           /\ \A i \in 1..Len(AppendedVerticalTexts) :
                 AppendedVerticalTexts[i].associatedIconIndex
                     = LastInstance(bucket').verticalPlacedIconSymbolIndex]_vars

\* the second symbol of a bucket has an icon, a vertical icon, a horizontal
\* and a vertical text: the texts point at icon entries 1 and 2
C7_Witness ==
    /\ Len(bucket.symbolInstances) = 2
    /\ LastInstance(bucket).placedIconSymbolIndex = 1
    /\ LastInstance(bucket).verticalPlacedIconSymbolIndex = 2
    /\ Len(bucket.icon) = 3
    /\ Len(bucket.text) >= 2
    /\ bucket.text[Len(bucket.text)].writingMode = "vertical"
    /\ bucket.text[Len(bucket.text)].associatedIconIndex = 2
    /\ bucket.text[Len(bucket.text) - 1].associatedIconIndex = 1

\* the index an instance stores for a justification
JustifiedTextSymbolIndex(inst, justify) ==
    CASE justify = "right" -> inst.rightJustifiedTextSymbolIndex
      [] justify = "center" -> inst.centerJustifiedTextSymbolIndex
      [] justify = "left" -> inst.leftJustifiedTextSymbolIndex

\* C8: a symbol gets one horizontal placed-text entry per justification
\* variant, each recorded under its justification; when the first variant is
\* single-line it gets exactly one entry, whose index is recorded for every
\* justification key of the symbol; the other indices stay -1.
C8_EntryPerJustification ==
    [][EmitsSymbol =>
           LET horizontal == shaped.orientations.horizontal
               keys == HorizontalKeys(horizontal)
               inst == LastInstance(bucket')
               first == Len(bucket.text)
           IN /\ \A j \in {"right", "center", "left"} \ { keys[i] : i \in 1..Len(keys) } :
                    JustifiedTextSymbolIndex(inst, j) = -1
              /\ IF keys # <<>> /\ horizontal[1].shaping.lines = 1
                 THEN /\ Len(AppendedHorizontalTexts) = 1
                      /\ AppendedTexts[1].writingMode # "vertical"
                      /\ \A i \in 1..Len(keys) :
                            JustifiedTextSymbolIndex(inst, keys[i]) = first
                 ELSE /\ Len(AppendedHorizontalTexts) = Len(keys)
                      /\ \A i \in 1..Len(keys) :
                            /\ AppendedTexts[i].writingMode # "vertical"
                            /\ JustifiedTextSymbolIndex(inst, keys[i]) = first + i - 1]_vars

\* a bucket with variable anchors left and top-right: its first symbol has
\* two lines and an entry per justification, its second symbol one line and
\* one entry for both
C8_Witness ==
    /\ layout.variableAnchor = <<"left", "top-right">>
    /\ layout.textJustify = "auto"
    /\ Len(bucket.symbolInstances) = 2
    /\ Len(bucket.text) = 3
    /\ bucket.symbolInstances[1].leftJustifiedTextSymbolIndex = 0
    /\ bucket.symbolInstances[1].rightJustifiedTextSymbolIndex = 1
    /\ bucket.symbolInstances[2].leftJustifiedTextSymbolIndex = 2
    /\ bucket.symbolInstances[2].rightJustifiedTextSymbolIndex = 2
    /\ bucket.symbolInstances[2].centerJustifiedTextSymbolIndex = -1

(* --- text without icon, icon without text --- *)

\* C9: every symbol instance of a feature whose text shaping fails and whose
\* icon is shaped has an icon placement index >= 0, its four text placement
\* indices -1 and both glyph vertex counts 0; every instance of a feature
\* whose icon is missing and whose text is shaped has a placed text (a
\* justified index that names an entry of the text array, glyph vertices)
\* and both icon placement indices -1 with both icon vertex counts 0. Such
\* features do emit: under point placement, one instance per point in the tile.
C9_IndependentFailure ==
    /\ \A i \in InstancesOf(bucket, feature.index) :
          LET inst == bucket.symbolInstances[i] IN
          /\ TextShapingFails(feature) /\ ~IconNotShaped(feature) =>
                /\ inst.placedIconSymbolIndex >= 0
                /\ inst.placedIconSymbolIndex < Len(bucket.icon)
                /\ inst.rightJustifiedTextSymbolIndex = -1
                /\ inst.centerJustifiedTextSymbolIndex = -1
                /\ inst.leftJustifiedTextSymbolIndex = -1
                /\ inst.verticalPlacedTextSymbolIndex = -1
                /\ inst.numHorizontalGlyphVertices = 0
                /\ inst.numVerticalGlyphVertices = 0
          /\ IconNotShaped(feature) /\ ~TextShapingFails(feature) =>
                /\ \/ /\ \E j \in {"right", "center", "left"} :
                            /\ JustifiedTextSymbolIndex(inst, j) >= 0
                            /\ JustifiedTextSymbolIndex(inst, j) < Len(bucket.text)
                      /\ inst.numHorizontalGlyphVertices > 0
                   \/ /\ feature.text = "VerticalOnly"
                      /\ inst.numVerticalGlyphVertices > 0
                      /\ Len(bucket.text) > 0
                /\ inst.placedIconSymbolIndex = -1
                /\ inst.verticalPlacedIconSymbolIndex = -1
                /\ inst.numIconVertices = 0
                /\ inst.numVerticalIconVertices = 0
    /\ PlacedPointFeature /\ (TextShapingFails(feature) \/ IconNotShaped(feature)) =>
          Cardinality(InstancesOf(bucket, feature.index))
              = Len(PointsInsideTile(feature.geometry))

\* the first feature had an icon and no renderable text, the second a text
\* and an icon the image map lacks: one instance each
C9_Witness ==
    /\ FeatureDone
    /\ nFeatures = 2
    /\ feature.icon = "missing" /\ feature.text = "Hello" /\ feature.lines = 2
    /\ Len(bucket.symbolInstances) = 2
    /\ bucket.symbolInstances[1].placedIconSymbolIndex = 0
    /\ bucket.symbolInstances[1].numHorizontalGlyphVertices = 0
    /\ bucket.symbolInstances[1].textBoxStartIndex = bucket.symbolInstances[1].textBoxEndIndex
    /\ bucket.symbolInstances[2].featureIndex = 1
    /\ bucket.symbolInstances[2].placedIconSymbolIndex = -1
    /\ bucket.symbolInstances[2].numHorizontalGlyphVertices > 0

(* --- the "Hello" scenario --- *)

\* a feature with text-field "Hello" whose glyphs are there, no icon and one
\* point, inside the tile, in a layer with symbol-placement point and the
\* other layout properties at their defaults: text-justify center, or auto
\* with the text-anchor center, and no text-variable-anchor
HelloScenario ==
    /\ FeatureDone
    /\ layout.symbolPlacement = "point"
    /\ layout.variableAnchor = <<>>
    /\ layout.textJustify \in {"center", "auto"}
    /\ layout.textAnchor = "center"
    /\ feature.type = "Point"
    /\ feature.text = "Hello" /\ feature.lines >= 1
    /\ feature.icon = ""
    /\ GeometrySize(feature.geometry) = 1
    /\ Len(PointsInsideTile(feature.geometry)) = 1

\* C10: the "Hello" feature has exactly one symbol instance; its center text
\* placement index is non-negative and its icon placement index is -1.
C10_HelloScenario ==
    HelloScenario =>
        /\ Cardinality(InstancesOf(bucket, feature.index)) = 1
        /\ \A i \in InstancesOf(bucket, feature.index) :
              /\ bucket.symbolInstances[i].centerJustifiedTextSymbolIndex >= 0
              /\ bucket.symbolInstances[i].placedIconSymbolIndex = -1

\* the scenario with text-justify auto as the only feature of the bucket:
\* its instance has center index 0
C10_Witness ==
    /\ HelloScenario
    /\ layout.textJustify = "auto"
    /\ pc = "done"
    /\ nFeatures = 1
    /\ Len(bucket.symbolInstances) = 1
    /\ bucket.symbolInstances[1].centerJustifiedTextSymbolIndex = 0
    /\ bucket.symbolInstances[1].placedIconSymbolIndex = -1
    /\ bucket.symbolInstances[1].anchorX = EXTENT - 1

(* --- the anchors of a feature --- *)

\* the step in which addFeature is entered for the feature it takes
EntersAddFeature ==
    TakesFeature /\ ~(TextShapingFails(feature') /\ IconNotShaped(feature'))

\* the vertices of a line inside the closed tile box, which is what is left
\* of the line after clipping
ClippedVertices(line) ==
    LET Kept(p) == p[1] >= 0 /\ p[1] <= EXTENT /\ p[2] >= 0 /\ p[2] <= EXTENT
    IN SelectSeq(line, Kept)

\* the lines of a geometry that have two points or more
LongLines(geometry) ==
    LET Long(line) == Len(line) >= 2 IN SelectSeq(geometry, Long)

\* C11: addFeature enumerates the anchors of a feature by one branch, chosen
\* by symbol-placement first and by geometry type second: line gives the
\* anchors of every line clipped to the tile, whatever the type; line-center
\* gives one anchor, a vertex of the line, for every line of two points or
\* more and none for shorter lines; otherwise a Polygon gives one anchor per
\* classified polygon, a LineString the first vertex of each line and a Point
\* every point.
C11_AnchorDispatch ==
    [][EntersAddFeature =>
           LET g == feature'.geometry IN
           CASE layout.symbolPlacement = "line" ->
                    anchors' = Flatten([i \in 1..Len(g) |-> ClippedVertices(g[i])])
             [] layout.symbolPlacement = "line-center" ->
                    /\ Len(anchors') = Len(LongLines(g))
                    /\ \A i \in 1..Len(anchors') :
                          \E p \in 1..Len(LongLines(g)[i]) : anchors'[i] = LongLines(g)[i][p]
             [] OTHER ->
                    CASE feature'.type = "Polygon" ->
                             /\ Len(anchors') = Len(g)
                             /\ \A i \in 1..Len(g) :
                                   \E p \in 1..Len(g[i]) : anchors'[i] = g[i][p]
                      [] feature'.type = "LineString" ->
                             anchors' = [i \in 1..Len(g) |-> g[i][1]]
                      [] feature'.type = "Point" ->
                             anchors' = Flatten(g)]_vars

\* addFeature was entered with a Polygon feature of one ring of two points on
\* a layer with symbol-placement line-center: one anchor is to be visited
C11_Witness ==
    /\ pc = "anchors"
    /\ layout.symbolPlacement = "line-center"
    /\ feature.type = "Polygon"
    /\ Len(feature.geometry) = 1
    /\ Len(feature.geometry[1]) = 2
    /\ Len(anchors) = 1
    /\ Len(bucket.symbolInstances) = 0

(* --- the shapings of the justifications --- *)

\* C12: with text-variable-anchor and text-justify auto every justification
\* derived from the anchors has an entry in the horizontal shaping map: its
\* own shaping as long as no earlier entry is single-line, and from the first
\* single-line entry on that same single-line shaping.
C12_SingleLineShapingReused ==
    layout.variableAnchor # <<>> /\ layout.textJustify = "auto" =>
        LET h == shaped.orientations.horizontal IN
        \A i \in 1..Len(h) :
            IF \E k \in 1..(i - 1) : h[k].shaping.lines = 1
            THEN LET first == CHOOSE k \in 1..(i - 1) :
                                  /\ h[k].shaping.lines = 1
                                  /\ \A m \in 1..(k - 1) : h[m].shaping.lines # 1
                 IN h[i].shaping = h[first].shaping
            ELSE /\ Truthy(h[i].shaping)
                 /\ h[i].shaping.justify = h[i].justify

(* --- the justification of an anchor --- *)

\* the horizontal side a text anchor is on
HorizontalSide(anchor) ==
    CASE anchor \in {"left", "top-left", "bottom-left"} -> "left"
      [] anchor \in {"right", "top-right", "bottom-right"} -> "right"
      [] anchor \in {"center", "top", "bottom"} -> "center"

\* the justifications recorded in the feature's horizontal shapings
ResolvedJustifications == HorizontalKeys(resolved.horizontal)

C14_RadialOffsetWins ==
    resolved.done /\ style.text # "" =>
        IF style.variableAnchor # <<>>
        THEN resolved.textOffset = ZeroTextOffset
        ELSE IF style.radialOffset # 0
        THEN /\ resolved.textOffset =
                    [kind |-> "radial", anchor |-> style.textAnchor,
                     x |-> style.radialOffset * ONE_EM, y |-> 0]
             /\ \A o \in TextOffsets :
                    LayoutTextOffset([style EXCEPT !.textOffset = o])
                        = resolved.textOffset
        ELSE resolved.textOffset =
                    [kind |-> "vector", anchor |-> "none",
                     x |-> style.textOffset[1] * ONE_EM,
                     y |-> style.textOffset[2] * ONE_EM]

\* a text with radial offset 2 and text-offset [1, -2] got the radial vector
C14_Witness ==
    /\ resolved.done
    /\ style.text = "Hello"
    /\ style.variableAnchor = <<>>
    /\ style.radialOffset = 2
    /\ style.textOffset = <<1, -2>>
    /\ style.textAnchor = "top-left"
    /\ resolved.textOffset.kind = "radial"
    /\ resolved.textOffset.x = 2 * ONE_EM

(* --- runtime collision circles --- *)

\* the circle diameters of the collision features an instance of the
\* feature under layout gets: text, vertical text, icon, vertical icon
InstanceCircleDiameters ==
    LET o == shaped.orientations
        alongLine == TextAlongLine(layout)
        hasVerticalText == layout.allowVerticalPlacement /\ Truthy(o.vertical)
    IN    (IF o.horizontal # <<>>
           THEN {CircleDiameter(getDefaultHorizontalShaping(o.horizontal).lines, alongLine)}
           ELSE {})
      \union (IF hasVerticalText
              THEN {CircleDiameter(o.vertical.lines, alongLine)} ELSE {})
      \union (IF shaped.icon THEN {CircleDiameter(1, FALSE)} ELSE {})
      \union (IF hasVerticalText /\ shaped.verticalIcon
              THEN {CircleDiameter(1, alongLine)} ELSE {})

\* the largest number of a non-empty set
SetMax(S) == CHOOSE m \in S : \A n \in S : n <= m

\* C15: the instance a step emits has the runtime-collision-circle flag 1
\* exactly when one of its collision features has a positive circle
\* diameter; then its diameter is the largest of them times layoutTextSize
\* over ONE_EM, and with the flag 0 its diameter is -1.
C15_CircleFlagAndDiameter ==
    [][EmitsSymbol =>
        LET inst == bucket'.symbolInstances[Len(bucket'.symbolInstances)]
            positive == { d \in InstanceCircleDiameters : d > 0 }
        IN /\ inst.useRuntimeCollisionCircles \in {0, 1}
           /\ inst.useRuntimeCollisionCircles = 1 <=> positive # {}
           /\ inst.useRuntimeCollisionCircles = 1 =>
                 /\ inst.collisionCircleDiameter.den = ONE_EM
                 /\ inst.collisionCircleDiameter.num
                        = SetMax(positive) * layout.textSize
           /\ inst.useRuntimeCollisionCircles = 0 =>
                 inst.collisionCircleDiameter = Ratio(-1, 1)]_vars

\* a two-line text along a line at text size 36 got circles of diameter
\* 48 * 36 / 24, and an icon without text got none
C15_Witness ==
    /\ Len(bucket.symbolInstances) = 2
    /\ layout.symbolPlacement = "line"
    /\ layout.textSize = 36
    /\ bucket.symbolInstances[1].useRuntimeCollisionCircles = 1
    /\ bucket.symbolInstances[1].collisionCircleDiameter = Ratio(48 * 36, ONE_EM)
    /\ bucket.symbolInstances[2].useRuntimeCollisionCircles = 0
    /\ bucket.symbolInstances[2].collisionCircleDiameter = Ratio(-1, 1)

(* --- capacity overflow --- *)

\* the size data the step handed to the bucket for the text or icon arrays
HandedSizeData(arrays) ==
    { packed'.handed[k].sizeData :
        k \in { j \in 1..Len(packed'.handed) : packed'.handed[j].arrays = arrays } }

\* the step handed a text or icon size above MAX_PACKED_SIZE to the bucket
HandsOverflowingSize(arrays) ==
    \E d \in HandedSizeData(arrays) : \E k \in 1..Len(d) : d[k] > MAX_PACKED_SIZE

\* C16: a step that meets an overflow (a packed text or icon size above
\* MAX_PACKED_SIZE, or a glyph count at or above MAX_GLYPHS) logs the
\* warning, hands the packed size to the bucket as SIZE_PACK_FACTOR times
\* the size, emits its instance and leaves the remaining symbols to be
\* added; while symbols remain the next one can always be added.
C16_OverflowOnlyWarns ==
    /\ [](packed.on /\ packed.remaining > 0 => ENABLED AddSymbolPacked)
    /\ [][AddSymbolPacked =>
            /\ packed'.symbolInstances = packed.symbolInstances + 1
            /\ packed'.remaining = packed.remaining - 1
            /\ packed.warnings \subseteq packed'.warnings
            /\ \A k \in 1..Len(packed'.handed) :
                  LET d == packed'.handed[k].sizeData IN
                  \A j \in 1..Len(d) :
                      \E size \in SizeValues : d[j] = SIZE_PACK_FACTOR * size
            /\ HandsOverflowingSize("text") => "text-size" \in packed'.warnings
            /\ HandsOverflowingSize("icon") => "icon-size" \in packed'.warnings
            /\ "text-size" \in packed'.warnings \ packed.warnings =>
                  HandsOverflowingSize("text")
            /\ "icon-size" \in packed'.warnings \ packed.warnings =>
                  HandsOverflowingSize("icon")
            /\ packed'.glyphOffsetArrayLength >= MAX_GLYPHS =>
                  "Too many glyphs" \in packed'.warnings]_vars

\* both symbols were added although the first one had a text size that does
\* not pack and filled the glyph array to its ceiling
C16_Witness ==
    /\ packed.on
    /\ packed.remaining = 0
    /\ packed.symbolInstances = MaxSymbols
    /\ packed.warnings = {"text-size", "Too many glyphs"}
    /\ packed.glyphOffsetArrayLength > MAX_GLYPHS
    /\ \E k \in 1..Len(packed.handed) :
          /\ packed.handed[k].arrays = "text"
          /\ packed.handed[k].sizeData = <<SIZE_PACK_FACTOR * 512>>

(* --- the image queue --- *)

\* the requests handed to doArrayRequest that have not completed
InFlight == { r \in 1..MaxRequests : requests[r].innerRequest /\ ~requests[r].completed }

\* C17: the number of image requests counted as in flight is never above
\* config.MAX_PARALLEL_IMAGE_REQUESTS and never negative, and it is the
\* number of requests that are in flight.
C17_ParallelRequestsBounded ==
    /\ currentParallelImageRequests >= 0
    /\ currentParallelImageRequests <= MAX_PARALLEL_IMAGE_REQUESTS
    /\ currentParallelImageRequests = Cardinality(InFlight)

\* the queue is full: after an earlier request has completed, as many
\* requests are in flight as allowed and one more is waiting
C17_Witness ==
    /\ currentParallelImageRequests = MAX_PARALLEL_IMAGE_REQUESTS
    /\ Len(imageQueue) = 1
    /\ \E r \in 1..MaxRequests : requests[r].completed
    /\ requests[imageQueue[1]].made /\ ~requests[imageQueue[1]].cancelled
    /\ moving = {}

\* C18: removing a callback by the handle its installation returned takes
\* that callback out of the callbacks consulted for throttling and leaves
\* the other callbacks installed.
C18_RemovedCallbackGone ==
    [][\A h \in 0..(MaxCallbacks - 1) :
          RemoveImageQueueThrottleControlCallback(h) =>
              /\ \A i \in 1..Len(imageQueueThrottleControlCallbacks') :
                    imageQueueThrottleControlCallbacks'[i] # Function(h + 1)
              /\ \A cb \in Callbacks \ {h + 1} :
                    (\E i \in 1..Len(imageQueueThrottleControlCallbacks) :
                        imageQueueThrottleControlCallbacks[i] = Function(cb))
                    => (\E i \in 1..Len(imageQueueThrottleControlCallbacks') :
                        imageQueueThrottleControlCallbacks'[i] = Function(cb))]_vars

(* --- TaskQueue --- *)

\* the tasks of the run under way that the loop has passed
PassedTasks == SubSeq(running, 1, position - 1)

\* the ids of a list of tasks or calls, in order
IdsOf(tasks) == [i \in 1..Len(tasks) |-> tasks[i].id]

\* how often a callback is in a list of tasks or calls
CountOf(tasks, callback) ==
    Cardinality({ i \in 1..Len(tasks) : tasks[i].callback = callback })

\* no remove() or clear() has touched the run under way
Undisturbed ==
    /\ ~cleared
    /\ \A i \in 1..Len(running) : ~running[i].cancelled

\* C19: run() calls the tasks in the order of their add() calls, each once:
\* while a run that no remove() or clear() disturbs goes on, the calls of
\* the run are exactly the tasks the loop has passed, in their order, and a
\* callback queued n times among them has been called n times.
C19_CallsInAddOrder ==
    isRunning /\ ~thrown /\ Undisturbed =>
        LET called == CallsOfRun(taskRuns) IN
        /\ IdsOf(called) = IdsOf(PassedTasks)
        /\ \A i \in 1..(Len(called) - 1) : called[i].id < called[i + 1].id
        /\ \A cb \in TaskCallbacks : CountOf(called, cb) = CountOf(PassedTasks, cb)

\* a run has called callback a twice, for the two tasks that queued it, and
\* then b
C19_Witness ==
    /\ isRunning /\ ~thrown /\ Undisturbed
    /\ position > Len(running)
    /\ Len(running) = 3
    /\ IdsOf(CallsOfRun(taskRuns)) = <<1, 2, 3>>
    /\ CountOf(CallsOfRun(taskRuns), "a") = 2
    /\ calls[3].callback = "b"

\* the step calls the task with this id
Calls(id) == Len(calls') = Len(calls) + 1 /\ calls'[Len(calls')].id = id

\* the step is a remove(id), from outside a run or from a callback
Removes(id) ==
    \/ Remove(id)
    \/ CallTask([op |-> "remove", arg |-> id])

\* the tasks that wait or are still to be reached by the run under way
Pending(queue, tasks, pos) ==
    queue \o (IF pos >= 1 /\ pos <= Len(tasks)
              THEN SubSeq(tasks, pos, Len(tasks)) ELSE <<>>)

\* C20: a task whose id was given to remove() before its call is never
\* called; remove(id) leaves every other pending task as it was, so that
\* the other instances of a multiply-queued callback stay queued; and
\* remove() with the id of a task that has run changes no pending task and
\* does not throw.
C20_RemovedNeverCalled ==
    [][/\ \A id \in removedIds : ~Calls(id)
       /\ \A id \in 1..MaxTasks :
             Removes(id) =>
                 /\ ~thrown'
                 /\ LET before == Pending(taskQueue, running, position')
                        after == Pending(taskQueue', running', position')
                    IN /\ Len(after) = Len(before)
                       /\ \A i \in 1..Len(before) :
                             IF before[i].id = id
                             THEN after[i] = [before[i] EXCEPT !.cancelled = TRUE]
                             ELSE after[i] = before[i]
                 /\ id \in CalledIds(calls) =>
                       Pending(taskQueue', running', position')
                           = Pending(taskQueue, running, position')]_vars

\* callback a was queued twice, the second task was removed before the run
\* by its id, and the run called a once, for the first task
C20_Witness ==
    /\ ~isRunning /\ ~thrown
    /\ taskRuns = 1
    /\ Len(running) = 2
    /\ running[1].callback = "a" /\ running[2].callback = "a"
    /\ removedIds = {2}
    /\ IdsOf(calls) = <<1>>

\* the step is a call of a callback that adds a task
AddsDuringRun == CallTask([op |-> "add", arg |-> 0])

\* C21: a task that a callback adds while run() is under way waits in the
\* queue and is not among the tasks of that run, which never grow and are
\* the only ones called; the next run() takes every waiting task.
C21_AddedDuringRunWaits ==
    [][/\ AddsDuringRun =>
             /\ HasTask(taskQueue', taskId')
             /\ ~HasTask(running', taskId')
       /\ isRunning /\ isRunning' => IdsOf(running') = IdsOf(running)
       /\ \A id \in 1..MaxTasks :
             Calls(id) => isRunning /\ running[position].id = id
       /\ RunBegin => running' = taskQueue /\ taskQueue' = <<>>]_vars

\* the first run has called task 1, whose callback added task 2; task 2
\* waits and has not been called
C21_Witness ==
    /\ isRunning /\ ~thrown
    /\ taskRuns = 1
    /\ IdsOf(running) = <<1>>
    /\ IdsOf(calls) = <<1>>
    /\ IdsOf(taskQueue) = <<2>>

\* the step is a clear(), from outside a run or from a callback
Clears == Clear \/ CallTask([op |-> "clear", arg |-> 0])

\* C22: clear() empties the queue; a task it discarded (queued before it,
\* added earlier in the run that called it, or still to be reached by that
\* run) is never called, and once a callback has called clear() the run
\* calls nothing more; tasks added afterwards are taken by the next run().
C22_ClearDiscards ==
    [][/\ Clears =>
             /\ taskQueue' = <<>>
             /\ TaskIds(taskQueue) \subseteq clearedIds'
             /\ isRunning =>
                   { running[i].id : i \in (position + 1)..Len(running) }
                       \subseteq clearedIds'
       /\ \A id \in clearedIds : ~Calls(id)
       /\ cleared => \A id \in 1..MaxTasks : ~Calls(id)
       /\ RunBegin => running' = taskQueue
       /\ \A cb \in TaskCallbacks :
             Add(cb) => HasTask(taskQueue', taskId') /\ taskId' \notin clearedIds']_vars

\* a callback of the first run added task 3 and the next one called
\* clear(): task 3 and the unreached task of the run were discarded and a
\* second run has ended without calling them
C22_Witness ==
    /\ ~isRunning /\ ~thrown
    /\ taskRuns = 2
    /\ clearedIds = {2, 3}
    /\ IdsOf(calls) = <<1>>
    /\ taskId = 3

(* --- GeoJSONWorkerSource --- *)

\* C23: while a load runs a new loadData request replaces the pending one,
\* whose callback is called with abandoned and nothing else; coalesce()
\* with a request pending starts its load; removeSource abandons the
\* pending request while the running load stays and ends with a result
\* that is not abandoned; no callback gets both or is called twice.
C23_CoalescedRequestsAbandoned ==
    /\ [](\A r \in 1..MaxLoads : Len(worker.results[r]) <= 1)
    /\ [][/\ LoadData =>
                /\ worker'.pending = worker.sent + 1 \/ worker'.loading = worker.sent + 1
                /\ worker.pending # 0 =>
                      /\ worker'.results[worker.pending] = <<"abandoned">>
                      /\ worker'.pending = worker.sent + 1
                /\ worker.loading # 0 =>
                      worker'.loading = worker.loading
                          /\ worker'.pending = worker.sent + 1
          /\ Coalesce /\ worker.pending # 0 =>
                worker'.loading = worker.pending /\ worker'.pending = 0
          /\ RemoveSource =>
                /\ worker.pending # 0 =>
                      worker'.results[worker.pending] = <<"abandoned">>
                /\ worker'.loading = worker.loading
          /\ FinishLoad => worker'.results[worker.loading] = <<"loaded">>]_vars

\* three requests: the first was loaded, the second was abandoned when the
\* third came, and the third was loaded after coalesce()
C23_Witness ==
    /\ worker.sent = 3
    /\ worker.results[1] = <<"loaded">>
    /\ worker.results[2] = <<"abandoned">>
    /\ worker.results[3] = <<"loaded">>
    /\ ~worker.removed

(* --- image request queue: progress --- *)

\* C24: with no throttling and every request in flight completing, a
\* request that getImage queued is eventually handed to doArrayRequest
\* unless it is cancelled, whatever cancelled requests are ahead of it.
C24_QueuedRequestsStart ==
    \A r \in 1..MaxRequests :
        [](requests[r].made /\ ~requests[r].cancelled
               => <>(requests[r].innerRequest \/ requests[r].cancelled))

\* C25: cancel() of a request in flight, neither completed nor cancelled,
\* marks it cancelled and takes it out of the count of parallel requests,
\* and the completion of a cancelled request leaves the counter alone.
C25_CancelInFlightFreesSlot ==
    [][\A r \in 1..MaxRequests :
          /\ CancelRequested(r) /\ ~requests[r].completed /\ ~requests[r].cancelled
                => /\ requests'[r].cancelled
                   /\ currentParallelImageRequests'
                          = Cardinality({q \in InFlight' : ~requests'[q].cancelled})
          /\ CompleteRequest(r) /\ requests[r].cancelled
                => currentParallelImageRequests' = currentParallelImageRequests]_vars

(* --- the vertical text of a symbol --- *)

\* C26: a symbol with a vertical shaping stores, as its vertical text
\* placement index, the index of the vertical entry appended for it to
\* bucket.text.placedSymbolArray, the last entry of the array; the stored
\* index is -1 only for a symbol without vertical shaping.
C26_VerticalIndexNamesEntry ==
    [][EmitsSymbol =>
           LET inst == LastInstance(bucket')
               hasVertical == Truthy(shaped.orientations.vertical)
           IN /\ hasVertical =>
                    /\ Len(AppendedVerticalTexts) = 1
                    /\ bucket'.text[Len(bucket'.text)].writingMode = "vertical"
                    /\ inst.verticalPlacedTextSymbolIndex = Len(bucket'.text) - 1
              /\ inst.verticalPlacedTextSymbolIndex = -1 => ~hasVertical]_vars

(* --- what the repeat-distance map records --- *)

\* C27: every anchor recorded in bucket.compareText under a text is the
\* anchor of a symbol instance with that key, so an anchor that the
\* tile-bounds check rejected is not recorded and suppresses nothing.
C27_RecordedAnchorsEmitted ==
    \A t \in DOMAIN bucket.compareText :
        \A k \in 1..Len(bucket.compareText[t]) :
            \E i \in 1..Len(bucket.symbolInstances) :
                /\ bucket.symbolInstances[i].key = t
                /\ bucket.symbolInstances[i].anchorX = bucket.compareText[t][k][1]
                /\ bucket.symbolInstances[i].anchorY = bucket.compareText[t][k][2]

(* --- makeFetchRequest --- *)

\* C28: once cancel() was called on the Cancelable of a request, its
\* callback is not called any more, with data or with an error, whatever
\* stage the request was in.
C28_NoCallbackAfterCancel ==
    [][\A r \in 1..MaxFetches :
          fetches[r].aborted => fetches'[r].calls = fetches[r].calls]_vars

(* --- loadSprite --- *)

\* C29: the callback of loadSprite is called at most once, in whatever
\* order the answers arrive: with the result, and then the JSON and the
\* image of every sprite have arrived, or with the error of a request.
C29_CallbackAtMostOnce ==
    /\ Len(sprite.calls) <= 1
    /\ sprite.calls = <<"result">> =>
           sprite.jsonsMap = 1..sprite.n /\ sprite.imagesMap = 1..sprite.n

(* --- GlobeTransform --- *)

\* C30: newFrameUpdate returns forcePlacementUpdate = true, with
\* forceSourceUpdate and a projectiontransition event naming the new
\* projection, in the frames in which globeness > 0 holds on one side of
\* the update only; in every other frame it returns forcePlacementUpdate =
\* false, no forced source update and no event.
C30_TransitionFramesForceUpdate ==
    [][NewFrameUpdate =>
           IF (globe._globeness > 0) # (globe'._globeness > 0)
           THEN /\ globe'.result.forcePlacementUpdate
                /\ globe'.result.forceSourceUpdate
                /\ globe'.result.fireProjectionEvent
                       = IF globe'._globeness > 0 THEN "globe" ELSE "globe-mercator"
           ELSE /\ ~globe'.result.forcePlacementUpdate
                /\ ~globe'.result.forceSourceUpdate
                /\ globe'.result.fireProjectionEvent = "none"]_vars

\* the frame in which the transition to mercator ended: the globeness
\* reached 0 and the update was forced
C30_Witness ==
    /\ globe._globeness = 0
    /\ ~globe.globeState
    /\ globe.result.forcePlacementUpdate
    /\ globe.result.fireProjectionEvent = "globe-mercator"
    /\ globe.frames >= 3

====
